---- MODULE Spec2Model ----
(***************************************************************************)
(* A model of the issue collection of the project-management client:       *)
(*   - the optimistic list helpers of utils/supabase/realtime.ts,          *)
(*   - the KanbanBoard drag handlers and the order they request,           *)
(*   - the useIssues hook: optimistic create/update/delete with rollback,  *)
(*     moveIssue with its refetch, and the change-feed handlers,           *)
(*   - the authoritative store (table "issues") the hook talks to.         *)
(*   - useIssues across changes of its projectId, with its channel,        *)
(*   - POST /api/teams, useNotifications, useProjects, and the realtime    *)
(*     channels the hooks open and clean up.                               *)
(*                                                                         *)
(* An issue row is a record [id, status_id, order, title, joined].         *)
(* "order" is a text column: a decimal string, modelled as the sequence of *)
(* its digits, so that parseInt/toString and the store's text ordering are *)
(* what the code and the store compute.  "joined" says whether the record  *)
(* carries the status/assignee/reporter relations of the joined select     *)
(* (the optimistic placeholder of createIssue does not).  The remaining    *)
(* columns (description, priority, assignee, timestamps) are copied like   *)
(* title and are not modelled.                                             *)
(***************************************************************************)
EXTENDS Integers, Sequences, FiniteSets, TLC

VARIABLES
    \* ---- Ordered Collection Store driven directly (realtime.ts helpers)
    items,          \* the collection handed from call to call
    expectedIds,    \* ids added and not later removed
    calls,          \* number of helper calls made
    heap,           \* the objects and arrays the helper calls have allocated
    cur,            \* address of the array the last call returned
    given,          \* address of the array the last call was given
    lastCall,       \* the last helper call
    \* ---- KanbanBoard component and the store it sends moves to
    board,          \* KanbanBoard local state "issues" (useState(initialIssues))
    activeId,       \* KanbanBoard local state "activeId"; Null when idle
    overId,         \* the droppable the drag is over (dnd-kit "over"); Null if none
    moveReqs,       \* onIssueMove calls handed to moveIssue, not yet stored
    table,          \* rows of the store the board's moves are applied to
    table0,         \* the rows the board was mounted with
    lastDrop,       \* what the last handleDragEnd did
    dragsLeft,      \* drags still to come
    \* ---- useIssues hook, its requests in flight and the authoritative store
    issues,         \* hook state "issues" (an array, or Null)
    loading,        \* hook state "loading"
    error,          \* hook state "error"
    crashed,        \* a state updater threw while React applied it
    db,             \* authoritative rows of the project
    nextId,         \* how many rows the store has created
    fetch,          \* the initial fetchIssues request
    ops,            \* the mutation calls: slot -> call record
    feed,           \* change-feed events not yet delivered to the channel
    refetches,      \* re-fetches started by INSERT/UPDATE events
    budget,         \* mutation calls and other clients' changes still to come
    last,           \* the change-feed handler that ran last, if the last step was one
    \* ---- useIssues across changes of its projectId (with issues, loading,
    \* error, crashed, db and nextId above)
    projectId,      \* the hook's argument; Null when it has none
    mounted,        \* the component using the hook is mounted
    run,            \* how many times the effect has run
    channels,       \* effect run -> the channel it created
    pending,        \* requests of fetchIssues and of the INSERT/UPDATE handlers
    changes,        \* changes by other clients still to come
    \* ---- POST /api/teams and its tables
    teams,          \* rows of table "teams"
    team_members,   \* rows of table "team_members"
    request,        \* the last request handled
    response,       \* the status of the response to it
    posts,          \* requests still to come
    \* ---- useNotifications hook and table "notifications"
    notifications,  \* hook state "notifications"
    unreadCount,    \* hook state "unreadCount"
    notifRows,      \* rows of the user in table "notifications"
    notifEvents,    \* change-feed events not yet delivered
    notifCalls,     \* requests in flight: the fetch, re-fetches, mutations
    notifActs,      \* mutation calls and inserts by the server still to come
    replicaFull,    \* the table's replica identity is FULL: events carry the old row
    \* ---- useProjects hook and tables "projects" and "statuses"
    projects,       \* hook state "projects"
    projectRows,    \* rows of the team in table "projects"
    statusRows,     \* rows of table "statuses"
    projectCalls,   \* calls of createProject / updateProject / deleteProject
    projectActs,    \* calls still to come
    \* ---- the realtime channels the hooks open on the client
    opened,         \* the channels opened so far: [hook, ch]
    effects,        \* hook -> its effect is live, and the channels that run opened
    effectsLeft     \* effect runs still to come

storeVars == <<items, expectedIds, calls, heap, cur, given, lastCall>>
boardVars == <<board, activeId, overId, moveReqs, table, table0, lastDrop, dragsLeft>>
hookVars  == <<issues, loading, error, crashed, db, nextId, fetch, ops, feed,
               refetches, budget, last>>
switchVars == <<projectId, mounted, run, channels, pending, changes>>
teamVars == <<teams, team_members, request, response, posts>>
notifVars == <<notifications, unreadCount, notifRows, notifEvents, notifCalls, notifActs,
               replicaFull>>
projVars == <<projects, projectRows, statusRows, projectCalls, projectActs>>
chanVars == <<opened, effects, effectsLeft>>
sideVars == <<teamVars, notifVars, projVars, chanVars>>
restVars == <<switchVars, sideVars>>
vars == <<storeVars, boardVars, hookVars, restVars>>

Null == "null"

\* ------------------------------------------------------------------ bounds
MaxCalls  == 3      \* helper calls in one run of the collection store
MaxDrags  == 2      \* drags in one run of the board
MaxActs   == 1      \* mutation calls of the hook plus changes by other clients
MaxRuns   == 2      \* runs of the effect of useIssues (projectId changes plus one)
MaxChanges == 1     \* changes by other clients while projectId changes
MaxPosts  == 2      \* requests to POST /api/teams
MaxNotifActs == 1   \* mutation calls of useNotifications plus inserts by the server
MaxProjectActs == 2 \* calls of the mutation functions of useProjects
MaxEffects == 3     \* effect runs of the hooks that open channels

\* ------------------------------------------------------------ order strings
Digits == 0..9

RECURSIVE toString(_)
\* Number.prototype.toString of a non-negative integer: its decimal digits.
toString(n) == IF n < 10 THEN <<n>> ELSE toString(n \div 10) \o <<n % 10>>

RECURSIVE parseInt(_)
\* parseInt of a decimal string.
parseInt(s) == IF Len(s) = 0 THEN 0
               ELSE 10 * parseInt(SubSeq(s, 1, Len(s) - 1)) + s[Len(s)]

RECURSIVE TextLess(_, _)
\* The store's ordering of the text column "order": character by character.
TextLess(s, t) ==
    IF Len(t) = 0 THEN FALSE
    ELSE IF Len(s) = 0 THEN TRUE
    ELSE IF s[1] # t[1] THEN s[1] < t[1]
    ELSE TextLess(Tail(s), Tail(t))

\* ------------------------------------------------------------------- rows
Statuses == {"todo", "done"}

Row(i, s, o, t, j) == [id |-> i, status_id |-> s, order |-> o, title |-> t, joined |-> j]

IdsOf(list) == {list[k].id : k \in 1..Len(list)}
NoDup(list) == \A j, k \in 1..Len(list) : list[j].id = list[k].id => j = k
Count(list, i) == Cardinality({k \in 1..Len(list) : list[k].id = i})

RECURSIVE Filter(_, _)
\* Array.prototype.filter for "item.id !== itemId".
Filter(list, i) ==
    IF Len(list) = 0 THEN <<>>
    ELSE IF list[1].id # i THEN <<list[1]>> \o Filter(Tail(list), i)
    ELSE Filter(Tail(list), i)

\* { ...item, ...updates }
Spread(item, updates) ==
    [f \in DOMAIN item \cup DOMAIN updates |->
        IF f \in DOMAIN updates THEN updates[f] ELSE item[f]]

\* ------------------------------------------------- realtime.ts helpers
optimisticAdd(list, newItem) == Append(list, newItem)

\* an update that adds the patch as an item when no element has the id
optimisticUpsert(list, itemId, updates) ==
    IF itemId \in IdsOf(list)
    THEN [k \in 1..Len(list) |->
            IF list[k].id = itemId THEN Spread(list[k], updates) ELSE list[k]]
    ELSE Append(list, Spread([id |-> itemId], updates))

optimisticUpdate(list, itemId, updates) ==
    [k \in 1..Len(list) |->
        IF list[k].id = itemId THEN Spread(list[k], updates) ELSE list[k]]

optimisticDelete(list, itemId) == Filter(list, itemId)

\* ---------------------------------------------------------- idle components
\* The parts of the state a specification does not drive keep these values.
NoStoreCall == [op |-> "none", id |-> Null]

StoreIdle == /\ items = <<>> /\ expectedIds = {} /\ calls = 0
             /\ heap = [objects |-> <<>>, arrays |-> <<>>] /\ cur = 0 /\ given = 0
             /\ lastCall = NoStoreCall

NoDrop == [kind |-> "none", id |-> Null, over |-> Null, status |-> Null,
           order |-> <<>>, lane |-> {}, target |-> <<>>, from |-> Null,
           pending |-> 0]

NoRequest == [user |-> Null,
              body |-> [json |-> "none", name |-> <<>>, description |-> <<>>]]

TeamsIdle == /\ teams = {} /\ team_members = {} /\ request = NoRequest /\ response = 0
             /\ posts = 0

NotifIdle == /\ notifications = <<>> /\ unreadCount = 0 /\ notifRows = {}
             /\ notifEvents = <<>> /\ notifCalls = {} /\ notifActs = 0
             /\ replicaFull = FALSE

ProjectsIdle == /\ projects = <<>> /\ projectRows = {} /\ statusRows = {}
                /\ projectCalls = {} /\ projectActs = 0

ChannelHooks == {"useIssues", "useNotifications", "useRealtimeTeamActivities"}
NoEffect == [live |-> FALSE, chans |-> {}]
ChannelsIdle == /\ opened = <<>> /\ effects = [h \in ChannelHooks |-> NoEffect]
                /\ effectsLeft = 0

SwitchIdle == /\ projectId = Null /\ mounted = FALSE /\ run = 0 /\ channels = <<>>
              /\ pending = {} /\ changes = 0

BoardIdle == /\ board = <<>> /\ activeId = Null /\ overId = Null /\ moveReqs = <<>>
             /\ table = {} /\ table0 = {} /\ lastDrop = NoDrop /\ dragsLeft = 0

(***************************************************************************)
(* The Ordered Collection Store driven directly: any sequence of           *)
(* optimisticAdd / optimisticUpdate / optimisticDelete calls, each handed   *)
(* the collection the previous call returned.                              *)
(***************************************************************************)
StoreIds == {"a", "b", "c"}

\* The items callers add: any id, a placeholder without relations.
StoreItem(i) == Row(i, "todo", <<1>>, "new", FALSE)

\* The patches useIssues.updateIssue passes (it never patches the id).
StorePatches == {[title |-> "edited"], [status_id |-> "done"],
                 [title |-> "edited", status_id |-> "done"]}

\* Duplicate-free starting collections.
StoreStarts == {<<>>, <<StoreItem("a")>>, <<StoreItem("a"), StoreItem("b")>>}

\* ---- the same helpers on references: "objects" and "arrays" are the
\* allocated values by address, an array holds the addresses of its elements
Deref(h, a) == [k \in 1..Len(h.arrays[a]) |-> h.objects[h.arrays[a][k]]]

\* an array literal or the result of map / filter: a new array
NewArray(objects, arrays, elems) ==
    [objects |-> objects, arrays |-> Append(arrays, elems), ref |-> Len(arrays) + 1]

\* items.push(newItem); return items
pushRef(h, a, newItem) ==
    LET objects == Append(h.objects, newItem)
    IN  [objects |-> objects,
         arrays |-> [h.arrays EXCEPT ![a] = Append(@, Len(objects))], ref |-> a]

\* [...items, newItem]: newItem is the caller's object
optimisticAddRef(h, a, newItem) ==
    LET objects == Append(h.objects, newItem)
    IN  NewArray(objects, h.arrays, Append(h.arrays[a], Len(objects)))

RECURSIVE mapRef(_, _, _, _)
\* items.map((item) => item.id === itemId ? { ...item, ...updates } : item):
\* a new object for each match, the same object otherwise
mapRef(objects, elems, itemId, updates) ==
    IF Len(elems) = 0 THEN [objects |-> objects, elems |-> <<>>]
    ELSE LET hit == objects[elems[1]].id = itemId
             objects1 == IF hit THEN Append(objects, Spread(objects[elems[1]], updates))
                         ELSE objects
             rest == mapRef(objects1, Tail(elems), itemId, updates)
         IN  [objects |-> rest.objects,
              elems |-> <<IF hit THEN Len(objects1) ELSE elems[1]>> \o rest.elems]

optimisticUpdateRef(h, a, itemId, updates) ==
    LET m == mapRef(h.objects, h.arrays[a], itemId, updates)
    IN  NewArray(m.objects, h.arrays, m.elems)

RECURSIVE filterRef(_, _, _)
\* items.filter((item) => item.id !== itemId)
filterRef(objects, elems, itemId) ==
    IF Len(elems) = 0 THEN <<>>
    ELSE (IF objects[elems[1]].id # itemId THEN <<elems[1]>> ELSE <<>>)
         \o filterRef(objects, Tail(elems), itemId)

optimisticDeleteRef(h, a, itemId) ==
    NewArray(h.objects, h.arrays, filterRef(h.objects, h.arrays[a], itemId))

\* the caller keeps the array it passed and takes the one returned
Returned(r, op, i) ==
    /\ heap' = [objects |-> r.objects, arrays |-> r.arrays]
    /\ given' = cur
    /\ cur' = r.ref
    /\ lastCall' = [op |-> op, id |-> i]

StoreAdd(i) ==
    /\ calls < MaxCalls
    /\ items' = optimisticAdd(items, StoreItem(i))
    /\ Returned(optimisticAddRef(heap, cur, StoreItem(i)), "add", i)
    /\ expectedIds' = expectedIds \cup {i}
    /\ calls' = calls + 1
    /\ UNCHANGED <<boardVars, hookVars, restVars>>

StoreUpdate(i, p) ==
    /\ calls < MaxCalls
    /\ items' = optimisticUpdate(items, i, p)
    /\ Returned(optimisticUpdateRef(heap, cur, i, p), "update", i)
    /\ expectedIds' = expectedIds
    /\ calls' = calls + 1
    /\ UNCHANGED <<boardVars, hookVars, restVars>>

StoreDelete(i) ==
    /\ calls < MaxCalls
    /\ items' = optimisticDelete(items, i)
    /\ Returned(optimisticDeleteRef(heap, cur, i), "delete", i)
    /\ expectedIds' = expectedIds \ {i}
    /\ calls' = calls + 1
    /\ UNCHANGED <<boardVars, hookVars, restVars>>

(***************************************************************************)
(* KanbanBoard.  The board keeps its own copy of the issues               *)
(* (useState(initialIssues)); dragging changes that copy, and a drop calls  *)
(* onIssueMove(issueId, statusId, order), which is useIssues.moveIssue:     *)
(* an update of status_id and order of that row in the store.              *)
(***************************************************************************)
BoardIds == {"1", "2", "3"}

ColumnIds == {"status-todo", "status-done"}           \* useDroppable ids
\* overId.replace("status-", "")
StatusOfColumn(c) == IF c = "status-todo" THEN "todo" ELSE "done"

\* issues.find((issue) => issue.id === id); callers test it for undefined
Has(list, i) == \E k \in 1..Len(list) : list[k].id = i
Find(list, i) == list[CHOOSE k \in 1..Len(list) :
                        list[k].id = i /\ \A j \in 1..(k - 1) : list[j].id # i]

\* findIndex, 0-based; -1 when absent
FindIndex(list, i) == IF Has(list, i)
                      THEN (CHOOSE k \in 1..Len(list) :
                              list[k].id = i /\ \A j \in 1..(k - 1) : list[j].id # i) - 1
                      ELSE -1

\* issuesByStatus[statusId] || []
InStatus(list, s) == SelectSeq(list, LAMBDA r : r.status_id = s)
NotInStatus(list, s) == SelectSeq(list, LAMBDA r : r.status_id # s)

\* prev.map((issue) => issue.id === id ? { ...issue, status_id } : issue)
SetStatus(list, i, s) == optimisticUpdate(list, i, [status_id |-> s])

\* dnd-kit arrayMove(array, from, to) for 0-based from, to within the array
RemoveAt(list, k) == SubSeq(list, 1, k - 1) \o SubSeq(list, k + 1, Len(list))
InsertAt(list, k, x) == SubSeq(list, 1, k - 1) \o <<x>> \o SubSeq(list, k, Len(list))
arrayMove(list, from, to) == InsertAt(RemoveAt(list, from + 1), to + 1, list[from + 1])

\* All orderings of a set of rows a select ".order('order', ascending)" may
\* return: ascending in the text order, rows of equal order in any order.
Arrangements(rows) ==
    {f \in [1..Cardinality(rows) -> rows] : \A j, k \in 1..Cardinality(rows) :
        /\ (f[j] = f[k] => j = k)
        /\ (j < k => ~TextLess(f[k].order, f[j].order))}

\* queries.moveIssue: update({ status_id, order }).eq("id", issueId)
moveIssue(rows, i, s, o) ==
    {IF r.id = i THEN Spread(r, [status_id |-> s, order |-> o]) ELSE r : r \in rows}

IdNum(i) == CASE i = "1" -> 1 [] i = "2" -> 2 [] OTHER -> 3

\* The tables the board is mounted on: issues created one after another by
\* createIssue, each with order = (max order of its status) + 1.
DenseTable(ids, st) ==
    {Row(i, st[i], toString(Cardinality({j \in ids : st[j] = st[i] /\ IdNum(j) <= IdNum(i)})),
         "t", TRUE) : i \in ids}

BoardTables == {DenseTable(ids, st) : ids \in {{"1"}, {"1", "2"}, {"1", "2", "3"}},
                                      st \in [BoardIds -> Statuses]}

\* KanbanBoard.handleDragOver: the board's issues after the event
handleDragOver(list, active, over) ==
    IF over = Null THEN list
    ELSE IF ~Has(list, active) THEN list
    ELSE IF over \in ColumnIds
         THEN IF Find(list, active).status_id # StatusOfColumn(over)
              THEN SetStatus(list, active, StatusOfColumn(over))
              ELSE list
    ELSE IF Has(list, over) /\ Find(list, active).status_id # Find(list, over).status_id
         THEN SetStatus(list, active, Find(list, over).status_id)
    ELSE list

\* The onIssueMove call of a drop: Null, or [id, status, order]
NoCall == [id |-> Null, status |-> Null, order |-> <<>>]
Call(i, s, o) == [id |-> i, status |-> s, order |-> o]

\* KanbanBoard.handleDragEnd, drop on a status column
dropOnColumn(list, active, over) ==
    LET newStatusId == StatusOfColumn(over)
        newStatusIssues == InStatus(list, newStatusId)
        newOrder == toString(Len(newStatusIssues) + 1)
    IN  [kind |-> "column", list |-> list, call |-> Call(active, newStatusId, newOrder)]

\* KanbanBoard.handleDragEnd, drop on another issue
dropOnIssue(list, active, over) ==
    LET activeStatusId == Find(list, active).status_id
        overStatusId == Find(list, over).status_id
    IN  IF activeStatusId = overStatusId
        THEN LET statusIssues == InStatus(list, activeStatusId)
                 oldIndex == FindIndex(statusIssues, active)
                 newIndex == FindIndex(statusIssues, over)
             IN  IF oldIndex # newIndex
                 THEN [kind |-> "reorder",
                       list |-> NotInStatus(list, activeStatusId)
                                  \o arrayMove(statusIssues, oldIndex, newIndex),
                       call |-> Call(active, activeStatusId, toString(newIndex + 1))]
                 ELSE [kind |-> "none", list |-> list, call |-> NoCall]
        ELSE LET newStatusIssues == InStatus(list, overStatusId)
                 overIndex == FindIndex(newStatusIssues, over)
             IN  [kind |-> "lane", list |-> list,
                  call |-> Call(active, overStatusId, toString(overIndex + 1))]

\* KanbanBoard.handleDragEnd
handleDragEnd(list, active, over) ==
    IF over = Null \/ ~Has(list, active)
    THEN [kind |-> "none", list |-> list, call |-> NoCall]
    ELSE IF over \in ColumnIds THEN dropOnColumn(list, active, over)
    ELSE IF ~Has(list, over) THEN [kind |-> "none", list |-> list, call |-> NoCall]
    ELSE dropOnIssue(list, active, over)

\* The rows of a lane of the store, the dragged issue left out
LaneOf(rows, s, i) == {r \in rows : r.status_id = s /\ r.id # i}

\* handleDragStart
DragStart(i) ==
    /\ activeId = Null
    /\ dragsLeft > 0
    /\ Has(board, i)
    /\ activeId' = i
    /\ overId' = Null
    /\ dragsLeft' = dragsLeft - 1
    /\ UNCHANGED <<board, moveReqs, table, table0, lastDrop>>
    /\ UNCHANGED <<storeVars, hookVars, restVars>>

\* The pointer enters a droppable (a column or a card) or leaves them all:
\* dnd-kit calls onDragOver with the new "over".
DragOver(over) ==
    /\ activeId # Null
    /\ over # overId
    /\ over \in ColumnIds \cup IdsOf(board) \cup {Null}
    /\ overId' = over
    /\ board' = handleDragOver(board, activeId, over)
    /\ UNCHANGED <<activeId, moveReqs, table, table0, lastDrop, dragsLeft>>
    /\ UNCHANGED <<storeVars, hookVars, restVars>>

\* The pointer is released: dnd-kit calls onDragEnd with the current "over".
\* lastDrop records the call, the lane the store has the dragged issue in, the
\* rows the store has in the target lane and the number of earlier requests
\* still pending at call time, and the order of the issue dropped on (as the
\* board holds it).
DragEnd ==
    /\ activeId # Null
    /\ LET d == handleDragEnd(board, activeId, overId)
       IN  /\ board' = d.list
           /\ moveReqs' = IF d.call = NoCall THEN moveReqs ELSE Append(moveReqs, d.call)
           /\ lastDrop' = [kind |-> d.kind, id |-> activeId, over |-> overId,
                           status |-> d.call.status, order |-> d.call.order,
                           lane |-> IF d.call = NoCall THEN {}
                                    ELSE LaneOf(table, d.call.status, activeId),
                           target |-> IF d.kind \in {"reorder", "lane"}
                                      THEN Find(board, overId).order ELSE <<>>,
                           from |-> (CHOOSE r \in table : r.id = activeId).status_id,
                           pending |-> Len(moveReqs)]
    /\ activeId' = Null
    /\ overId' = Null
    /\ UNCHANGED <<table, table0, dragsLeft>>
    /\ UNCHANGED <<storeVars, hookVars, restVars>>

\* The store executes the oldest pending moveIssue request.
StoreMove ==
    /\ moveReqs # <<>>
    /\ table' = moveIssue(table, Head(moveReqs).id, Head(moveReqs).status,
                          Head(moveReqs).order)
    /\ moveReqs' = Tail(moveReqs)
    /\ UNCHANGED <<board, activeId, overId, table0, lastDrop, dragsLeft>>
    /\ UNCHANGED <<storeVars, hookVars, restVars>>

\* The store rejects the oldest pending moveIssue request (moveIssue returns
\* { data: null, error } and handleMoveIssue throws).
StoreMoveFails ==
    /\ moveReqs # <<>>
    /\ moveReqs' = Tail(moveReqs)
    /\ UNCHANGED <<board, activeId, overId, table, table0, lastDrop, dragsLeft>>
    /\ UNCHANGED <<storeVars, hookVars, restVars>>

(***************************************************************************)
(* useIssues(projectId) and the store.                                      *)
(*                                                                         *)
(* A value that may be null (the hook's "issues" after setIssues(null),     *)
(* the "data" of a response) is None or Some(v).  Every request is two      *)
(* steps: the store executes it, and later the hook's continuation runs     *)
(* with the response.  Steps of different calls interleave freely, as the   *)
(* awaits of the code allow.                                                *)
(***************************************************************************)
None == <<>>
Some(v) == <<v>>
IsNull(o) == Len(o) = 0
Val(o) == o[1]

OpSlots == 1..(MaxActs + 1)
TempIds == {"temp-1", "temp-2"}                 \* `temp-${Date.now()}`
NewIds == <<"n1", "n2", "n3", "n4", "n5", "n6", "n7", "n8">>   \* ids the store assigns
MoveOrders == {<<1>>}                            \* orders a caller of moveIssue passes
CreateStatuses == {"todo"}                       \* statuses a caller of createIssue passes
Patch == [title |-> "edited"]                    \* the updates of updateIssue

FreeOp == [kind |-> "free", pc |-> "free", id |-> Null, status |-> Null,
           order |-> <<>>, closure |-> None, snapshot |-> None, before |-> None,
           failed |-> FALSE, data |-> None, result |-> "none", steps |-> <<>>]

\* a call that has returned keeps its kind, whether its request failed, how its
\* promise settled and the steps it took
Done(o, res, st) == [FreeOp EXCEPT !.kind = o.kind, !.pc = "done", !.failed = o.failed,
                                   !.result = res, !.steps = st]

\* the last change-feed handler that ran to its end, for the properties
Step(k, i) == [kind |-> k, id |-> i]
NoStep == Step("none", Null)

HookIdle == /\ issues = Some(<<>>) /\ loading = FALSE /\ error = None
            /\ crashed = FALSE /\ db = {} /\ nextId = 0
            /\ fetch = [pc |-> "done", failed |-> FALSE, data |-> None]
            /\ ops = [s \in OpSlots |-> FreeOp] /\ feed = <<>> /\ refetches = {}
            /\ budget = 0 /\ last = NoStep

\* ---- the store's side of each request
Rows(i) == {r \in db : r.id = i}

\* select("order").eq(status).order("order", desc).limit(1): the greatest order
\* of the status in the text ordering, [] when the status has no issue
MaxOrderRows(s) ==
    LET lane == {r \in db : r.status_id = s}
    IN  IF lane = {} THEN <<>>
        ELSE <<(CHOOSE r \in lane : \A q \in lane : ~TextLess(r.order, q.order)).order>>

Event(t, i) == [type |-> t, id |-> i]

\* ---- updaters the hook hands to setIssues
\* INSERT handler: (prev) => [...prev, data]
insertHandler(prev, data) == Append(prev, data)
\* UPDATE handler, createIssue and updateIssue confirmation:
\* (prev) => prev.map((issue) => issue.id === id ? data : issue)
replaceById(prev, i, data) ==
    [k \in 1..Len(prev) |-> IF prev[k].id = i THEN data ELSE prev[k]]
\* DELETE handler: (prev) => prev.filter((issue) => issue.id !== id)
deleteHandler(prev, i) == Filter(prev, i)
\* rollbackOptimistic(setIssues, previousIssues): setItems(previousItems)
rollbackOptimistic(prev, previousItems) == previousItems
\* a catch block that restores and returns
catchSwallows == "resolved"
\* what the catch block of createIssue / updateIssue / deleteIssue does after
\* the rollback: "throw error"
catchOutcome == "rejected"

\* createIssue: newOrder = (parseInt(existingIssues?.[0]?.order || "0") + 1).toString()
newOrderOf(existing) ==
    toString(parseInt(IF Len(existing) = 0 THEN <<0>> ELSE existing[1]) + 1)

\* the updater an INSERT / UPDATE handler hands to setIssues when its re-fetch
\* returned a record
refetchResult(type, prev, i, data) ==
    IF type = "INSERT" THEN insertHandler(prev, data) ELSE replaceById(prev, i, data)

\* ---- setIssues
\* setIssues((prev) => F(prev)): React applies the updater to the current
\* state; on a null state the updater throws a TypeError while rendering.
Update(F(_)) ==
    IF IsNull(issues)
    THEN issues' = issues /\ crashed' = TRUE
    ELSE issues' = Some(F(Val(issues))) /\ crashed' = crashed
\* setIssues(value)
Assign(v) == issues' = v /\ crashed' = crashed

SetOp(s, r) == ops' = [ops EXCEPT ![s] = r]
Emit(evs) == feed' = feed \o evs
CanStart(s) == /\ ~crashed /\ budget > 0 /\ ops[s].kind = "free"
               /\ \A q \in OpSlots : q < s => ops[q].kind # "free"
At(s, k, pc) == ~crashed /\ ops[s].kind = k /\ ops[s].pc = pc

\* ---- the effect of useIssues: the initial fetchIssues()
FetchServer(arr) ==
    /\ ~crashed /\ fetch.pc = "sent"
    /\ arr \in Arrangements(db)
    /\ fetch' = [pc |-> "resp", failed |-> FALSE, data |-> Some(arr)]
    /\ last' = NoStep
    /\ UNCHANGED <<issues, loading, error, crashed, db, nextId, ops, feed, refetches, budget>>
    /\ UNCHANGED <<storeVars, boardVars, restVars>>

FetchServerFails ==
    /\ ~crashed /\ fetch.pc = "sent"
    /\ fetch' = [pc |-> "resp", failed |-> TRUE, data |-> None]
    /\ last' = NoStep
    /\ UNCHANGED <<issues, loading, error, crashed, db, nextId, ops, feed, refetches, budget>>
    /\ UNCHANGED <<storeVars, boardVars, restVars>>

FetchResume ==
    /\ ~crashed /\ fetch.pc = "resp"
    /\ IF fetch.failed
       THEN error' = Some("error") /\ UNCHANGED <<issues, crashed>>
       ELSE Assign(fetch.data) /\ error' = error
    /\ loading' = FALSE
    /\ fetch' = [fetch EXCEPT !.pc = "done"]
    /\ last' = NoStep
    /\ UNCHANGED <<db, nextId, ops, feed, refetches, budget>>
    /\ UNCHANGED <<storeVars, boardVars, restVars>>

\* ---- createIssue
CallCreate(s, st) ==
    /\ CanStart(s)
    /\ SetOp(s, [FreeOp EXCEPT !.kind = "create", !.pc = "maxq", !.status = st,
                               !.closure = issues])
    /\ last' = NoStep
    /\ UNCHANGED <<issues, loading, error, crashed, db, nextId, fetch, feed, refetches>>
    /\ budget' = budget - 1
    /\ UNCHANGED <<storeVars, boardVars, restVars>>

ServerMaxOrder(s) ==
    /\ At(s, "create", "maxq")
    /\ SetOp(s, [ops[s] EXCEPT !.pc = "maxr", !.data = Some(MaxOrderRows(ops[s].status))])
    /\ last' = NoStep
    /\ UNCHANGED <<issues, loading, error, crashed, db, nextId, fetch, feed, refetches, budget>>
    /\ UNCHANGED <<storeVars, boardVars, restVars>>

ServerMaxOrderFails(s) ==
    /\ At(s, "create", "maxq")
    /\ SetOp(s, [ops[s] EXCEPT !.pc = "maxr", !.data = None])
    /\ last' = NoStep
    /\ UNCHANGED <<issues, loading, error, crashed, db, nextId, fetch, feed, refetches, budget>>
    /\ UNCHANGED <<storeVars, boardVars, restVars>>

\* createIssue from "const maxOrder" to the insert request: the snapshot is the
\* "issues" of the render the call was made in, the updater runs on the
\* current state.  "before" records the collection the updater was applied to.
CreateContinue(s, t) ==
    /\ At(s, "create", "maxr")
    /\ t = "temp-1" \/ \E q \in OpSlots : ops[q].kind = "create" /\ ops[q].id = "temp-1"
    /\ LET o == ops[s]
           newOrder == newOrderOf(IF IsNull(o.data) THEN <<>> ELSE Val(o.data))
       IN  IF IsNull(o.closure)
           THEN /\ SetOp(s, Done(o, "rejected", o.steps))
                /\ UNCHANGED <<issues, crashed>>
           ELSE /\ SetOp(s, [o EXCEPT !.pc = "req", !.id = t, !.order = newOrder,
                                      !.snapshot = o.closure, !.before = issues,
                                      !.data = None,
                                      !.steps = <<"snapshot", "transform", "request">>])
                /\ Update(LAMBDA prev : optimisticAdd(prev,
                                            Row(t, o.status, newOrder, "new", FALSE)))
    /\ last' = NoStep
    /\ UNCHANGED <<loading, error, db, nextId, fetch, feed, refetches, budget>>
    /\ UNCHANGED <<storeVars, boardVars, restVars>>

ServerInsert(s) ==
    /\ At(s, "create", "req")
    /\ nextId < Len(NewIds)
    /\ LET row == Row(NewIds[nextId + 1], ops[s].status, ops[s].order, "new", TRUE)
       IN  /\ db' = db \cup {row}
           /\ Emit(<<Event("INSERT", row.id)>>)
           /\ SetOp(s, [ops[s] EXCEPT !.pc = "resp", !.data = Some(row)])
    /\ nextId' = nextId + 1
    /\ last' = NoStep
    /\ UNCHANGED <<issues, loading, error, crashed, fetch, refetches, budget>>
    /\ UNCHANGED <<storeVars, boardVars, restVars>>

\* the authoritative request of any call fails
ServerFails(s) ==
    /\ ~crashed /\ ops[s].pc = "req"
    /\ SetOp(s, [ops[s] EXCEPT !.pc = "resp", !.failed = TRUE, !.data = None])
    /\ last' = NoStep
    /\ UNCHANGED <<issues, loading, error, crashed, db, nextId, fetch, feed, refetches, budget>>
    /\ UNCHANGED <<storeVars, boardVars, restVars>>

\* the catch block of createIssue / updateIssue / deleteIssue
Catch(s) ==
    /\ Assign(Some(rollbackOptimistic(issues, Val(ops[s].snapshot))))
    /\ SetOp(s, Done(ops[s], catchOutcome,
                      ops[s].steps \o IF catchOutcome = "rejected"
                                      THEN <<"restore", "throw">> ELSE <<"restore">>))
    /\ last' = NoStep

CreateResume(s) ==
    /\ At(s, "create", "resp")
    /\ IF ops[s].failed
       THEN Catch(s)
       ELSE /\ Update(LAMBDA prev : replaceById(prev, ops[s].id, Val(ops[s].data)))
            /\ SetOp(s, Done(ops[s], "resolved", ops[s].steps))
            /\ last' = NoStep
    /\ UNCHANGED <<loading, error, db, nextId, fetch, feed, refetches, budget>>
    /\ UNCHANGED <<storeVars, boardVars, restVars>>

\* ---- updateIssue
\* up to the update request; the call is made from the current render, so the
\* snapshot [...issues] is the current collection
CallUpdate(s, i) ==
    /\ CanStart(s)
    /\ ~IsNull(issues) /\ i \in IdsOf(Val(issues))
    /\ SetOp(s, [FreeOp EXCEPT !.kind = "update", !.pc = "req", !.id = i,
                               !.closure = issues, !.snapshot = issues, !.before = issues,
                               !.steps = <<"snapshot", "transform", "request">>])
    /\ Update(LAMBDA prev : optimisticUpdate(prev, i, Patch))
    /\ last' = NoStep
    /\ UNCHANGED <<loading, error, db, nextId, fetch, feed, refetches>>
    /\ budget' = budget - 1
    /\ UNCHANGED <<storeVars, boardVars, restVars>>

\* update(updates).eq("id", issueId).select(...).single(): no such row is an error
ServerUpdate(s) ==
    /\ At(s, "update", "req")
    /\ IF Rows(ops[s].id) = {}
       THEN /\ SetOp(s, [ops[s] EXCEPT !.pc = "resp", !.failed = TRUE])
            /\ UNCHANGED <<db, feed>>
       ELSE LET row == Spread(CHOOSE r \in Rows(ops[s].id) : TRUE, Patch)
            IN  /\ db' = (db \ Rows(ops[s].id)) \cup {row}
                /\ Emit(<<Event("UPDATE", row.id)>>)
                /\ SetOp(s, [ops[s] EXCEPT !.pc = "resp", !.data = Some(row)])
    /\ last' = NoStep
    /\ UNCHANGED <<issues, loading, error, crashed, nextId, fetch, refetches, budget>>
    /\ UNCHANGED <<storeVars, boardVars, restVars>>

UpdateResume(s) ==
    /\ At(s, "update", "resp")
    /\ IF ops[s].failed
       THEN Catch(s)
       ELSE /\ Update(LAMBDA prev : replaceById(prev, ops[s].id, Val(ops[s].data)))
            /\ SetOp(s, Done(ops[s], "resolved", ops[s].steps))
            /\ last' = NoStep
    /\ UNCHANGED <<loading, error, db, nextId, fetch, feed, refetches, budget>>
    /\ UNCHANGED <<storeVars, boardVars, restVars>>

\* ---- deleteIssue
CallDelete(s, i) ==
    /\ CanStart(s)
    /\ ~IsNull(issues) /\ i \in IdsOf(Val(issues))
    /\ SetOp(s, [FreeOp EXCEPT !.kind = "delete", !.pc = "req", !.id = i,
                               !.closure = issues, !.snapshot = issues, !.before = issues,
                               !.steps = <<"snapshot", "transform", "request">>])
    /\ Update(LAMBDA prev : optimisticDelete(prev, i))
    /\ last' = NoStep
    /\ UNCHANGED <<loading, error, db, nextId, fetch, feed, refetches>>
    /\ budget' = budget - 1
    /\ UNCHANGED <<storeVars, boardVars, restVars>>

\* delete().eq("id", issueId): deleting no row is no error
ServerDelete(s) ==
    /\ At(s, "delete", "req")
    /\ db' = db \ Rows(ops[s].id)
    /\ Emit(IF Rows(ops[s].id) = {} THEN <<>> ELSE <<Event("DELETE", ops[s].id)>>)
    /\ SetOp(s, [ops[s] EXCEPT !.pc = "resp"])
    /\ last' = NoStep
    /\ UNCHANGED <<issues, loading, error, crashed, nextId, fetch, refetches, budget>>
    /\ UNCHANGED <<storeVars, boardVars, restVars>>

DeleteResume(s) ==
    /\ At(s, "delete", "resp")
    /\ IF ops[s].failed
       THEN Catch(s)
       ELSE /\ SetOp(s, Done(ops[s], "resolved", ops[s].steps))
            /\ last' = NoStep
            /\ UNCHANGED <<issues, crashed>>
    /\ UNCHANGED <<loading, error, db, nextId, fetch, feed, refetches, budget>>
    /\ UNCHANGED <<storeVars, boardVars, restVars>>

\* ---- moveIssue (handleMoveIssue)
CallMove(s, i, st, o) ==
    /\ CanStart(s)
    /\ ~IsNull(issues) /\ i \in IdsOf(Val(issues))
    /\ SetOp(s, [FreeOp EXCEPT !.kind = "move", !.pc = "req", !.id = i, !.status = st,
                               !.order = o])
    /\ last' = NoStep
    /\ UNCHANGED <<issues, loading, error, crashed, db, nextId, fetch, feed, refetches>>
    /\ budget' = budget - 1
    /\ UNCHANGED <<storeVars, boardVars, restVars>>

\* queries.moveIssue: update(...).eq("id", issueId).select(); no row is no error
ServerMove(s) ==
    /\ At(s, "move", "req")
    /\ db' = moveIssue(db, ops[s].id, ops[s].status, ops[s].order)
    /\ Emit(IF Rows(ops[s].id) = {} THEN <<>> ELSE <<Event("UPDATE", ops[s].id)>>)
    /\ SetOp(s, [ops[s] EXCEPT !.pc = "resp"])
    /\ last' = NoStep
    /\ UNCHANGED <<issues, loading, error, crashed, nextId, fetch, refetches, budget>>
    /\ UNCHANGED <<storeVars, boardVars, restVars>>

\* "if (error) throw error", else the refetch getIssuesByProjectId(projectId)
MoveResume(s) ==
    /\ At(s, "move", "resp")
    /\ IF ops[s].failed
       THEN SetOp(s, Done(ops[s], "rejected", ops[s].steps))
       ELSE SetOp(s, [ops[s] EXCEPT !.pc = "list"])
    /\ last' = NoStep
    /\ UNCHANGED <<issues, loading, error, crashed, db, nextId, fetch, feed, refetches, budget>>
    /\ UNCHANGED <<storeVars, boardVars, restVars>>

\* getIssuesByProjectId at the store: the rows by ascending order, or
\* { data: null, error }
ServerList(s, arr) ==
    /\ At(s, "move", "list")
    /\ arr \in Arrangements(db)
    /\ SetOp(s, [ops[s] EXCEPT !.pc = "listr", !.data = Some(arr)])
    /\ last' = NoStep
    /\ UNCHANGED <<issues, loading, error, crashed, db, nextId, fetch, feed, refetches, budget>>
    /\ UNCHANGED <<storeVars, boardVars, restVars>>

ServerListFails(s) ==
    /\ At(s, "move", "list")
    /\ SetOp(s, [ops[s] EXCEPT !.pc = "listr", !.data = None])
    /\ last' = NoStep
    /\ UNCHANGED <<issues, loading, error, crashed, db, nextId, fetch, feed, refetches, budget>>
    /\ UNCHANGED <<storeVars, boardVars, restVars>>

\* a handleMoveIssue that drops the response of its refetch
MoveListResumeKeeps(s) ==
    /\ At(s, "move", "listr")
    /\ UNCHANGED <<issues, crashed>>
    /\ SetOp(s, Done(ops[s], "resolved", ops[s].steps))
    /\ last' = NoStep
    /\ UNCHANGED <<loading, error, db, nextId, fetch, feed, refetches, budget>>
    /\ UNCHANGED <<storeVars, boardVars, restVars>>

\* setIssues(updatedIssues as Issue[]); return data
MoveListResume(s) ==
    /\ At(s, "move", "listr")
    /\ Assign(ops[s].data)
    /\ SetOp(s, Done(ops[s], "resolved", ops[s].steps))
    /\ last' = NoStep
    /\ UNCHANGED <<loading, error, db, nextId, fetch, feed, refetches, budget>>
    /\ UNCHANGED <<storeVars, boardVars, restVars>>

\* ---- the change feed
\* the channel delivers the oldest event: the DELETE handler runs to its end,
\* the INSERT / UPDATE handler sends its re-fetch
Deliver ==
    /\ ~crashed /\ feed # <<>>
    /\ LET e == Head(feed)
       IN  IF e.type = "DELETE"
           THEN /\ Update(LAMBDA prev : deleteHandler(prev, e.id))
                /\ UNCHANGED refetches
           ELSE /\ refetches' = refetches \cup
                        {[type |-> e.type, id |-> e.id, pc |-> "sent", data |-> None]}
                /\ UNCHANGED <<issues, crashed>>
    /\ [type |-> Head(feed).type, id |-> Head(feed).id, pc |-> "sent", data |-> None]
            \notin refetches
    /\ feed' = Tail(feed)
    /\ last' = IF Head(feed).type = "DELETE" THEN Step("DELETE", Head(feed).id)
                ELSE NoStep
    /\ UNCHANGED <<loading, error, db, nextId, fetch, ops, budget>>
    /\ UNCHANGED <<storeVars, boardVars, restVars>>

\* select(...).eq("id", id).single() at the store: the row, or data null
RefetchServer(r) ==
    /\ ~crashed /\ r \in refetches /\ r.pc = "sent"
    /\ refetches' = (refetches \ {r}) \cup
            {[r EXCEPT !.pc = "resp",
                       !.data = IF Rows(r.id) = {} THEN None
                                ELSE Some(CHOOSE x \in Rows(r.id) : TRUE)]}
    /\ last' = NoStep
    /\ UNCHANGED <<issues, loading, error, crashed, db, nextId, fetch, ops, feed, budget>>
    /\ UNCHANGED <<storeVars, boardVars, restVars>>

RefetchServerFails(r) ==
    /\ ~crashed /\ r \in refetches /\ r.pc = "sent"
    /\ refetches' = (refetches \ {r}) \cup {[r EXCEPT !.pc = "resp", !.data = None]}
    /\ last' = NoStep
    /\ UNCHANGED <<issues, loading, error, crashed, db, nextId, fetch, ops, feed, budget>>
    /\ UNCHANGED <<storeVars, boardVars, restVars>>

\* a handler that sends its re-fetch again when it returned no record
RefetchResumeRetry(r) ==
    /\ ~crashed /\ r \in refetches /\ r.pc = "resp"
    /\ IF IsNull(r.data)
       THEN /\ UNCHANGED <<issues, crashed>>
            /\ refetches' = (refetches \ {r}) \cup {[r EXCEPT !.pc = "sent"]}
       ELSE /\ Update(LAMBDA prev : refetchResult(r.type, prev, r.id, Val(r.data)))
            /\ refetches' = refetches \ {r}
    /\ last' = Step(IF IsNull(r.data) THEN "dropped" ELSE r.type, r.id)
    /\ UNCHANGED <<loading, error, db, nextId, fetch, ops, feed, budget>>
    /\ UNCHANGED <<storeVars, boardVars, restVars>>

\* the rest of the INSERT / UPDATE handler: "if (data) setIssues(...)", and
\* nothing else when the re-fetch returned no record
RefetchResume(r) ==
    /\ ~crashed /\ r \in refetches /\ r.pc = "resp"
    /\ IF IsNull(r.data)
       THEN UNCHANGED <<issues, crashed>>
       ELSE Update(LAMBDA prev : refetchResult(r.type, prev, r.id, Val(r.data)))
    /\ refetches' = refetches \ {r}
    /\ last' = Step(IF IsNull(r.data) THEN "dropped" ELSE r.type, r.id)
    /\ UNCHANGED <<loading, error, db, nextId, fetch, ops, feed, budget>>
    /\ UNCHANGED <<storeVars, boardVars, restVars>>

\* ---- other clients of the store
RemoteInsert(st) ==
    /\ ~crashed /\ budget > 0
    /\ nextId < Len(NewIds)
    /\ LET row == Row(NewIds[nextId + 1], st, newOrderOf(MaxOrderRows(st)), "new", TRUE)
       IN  db' = db \cup {row} /\ Emit(<<Event("INSERT", row.id)>>)
    /\ nextId' = nextId + 1
    /\ budget' = budget - 1
    /\ last' = NoStep
    /\ UNCHANGED <<issues, loading, error, crashed, fetch, ops, refetches>>
    /\ UNCHANGED <<storeVars, boardVars, restVars>>

RemoteUpdate(i) ==
    /\ ~crashed /\ budget > 0
    /\ Rows(i) # {}
    /\ db' = {IF r.id = i THEN Spread(r, [title |-> "remote"]) ELSE r : r \in db}
    /\ Emit(<<Event("UPDATE", i)>>)
    /\ budget' = budget - 1
    /\ last' = NoStep
    /\ UNCHANGED <<issues, loading, error, crashed, nextId, fetch, ops, refetches>>
    /\ UNCHANGED <<storeVars, boardVars, restVars>>

RemoteDelete(i) ==
    /\ ~crashed /\ budget > 0
    /\ Rows(i) # {}
    /\ db' = db \ Rows(i)
    /\ Emit(<<Event("DELETE", i)>>)
    /\ budget' = budget - 1
    /\ last' = NoStep
    /\ UNCHANGED <<issues, loading, error, crashed, nextId, fetch, ops, refetches>>
    /\ UNCHANGED <<storeVars, boardVars, restVars>>

(***************************************************************************)
(* useIssues(projectId) while projectId changes.                            *)
(*                                                                         *)
(* The effect depends on [projectId]: when the argument changes React runs  *)
(* the cleanup of the previous run and then the effect again, in one        *)
(* commit.  The state "issues" is shared by all runs.  A continuation      *)
(* that resumes after the component was unmounted sets no state.           *)
(***************************************************************************)
ProjectIds == {"P", "Q"}
ProjectRow(i, p, o) == Spread(Row(i, "todo", o, "t", TRUE), [project_id |-> p])
ProjectTable == {ProjectRow("p1", "P", <<1>>), ProjectRow("q1", "Q", <<1>>)}
RowsOf(p) == {r \in db : r.project_id = p}

NoChannel == [project |-> Null, state |-> "none", log |-> <<>>, events |-> <<>>,
              teardowns |-> 0, fetched |-> FALSE]

\* createRealtimeChannel, the three subscribeToChanges, channel.subscribe()
effectLog == <<"channel", "on INSERT", "on UPDATE", "on DELETE", "subscribe">>

\* the channel after the body of the effect
OpenChannel(p) == [NoChannel EXCEPT !.project = p, !.state = "subscribing",
                                    !.log = effectLog]

\* realtime.cleanupChannel: channel.unsubscribe(); supabase.removeChannel(channel)
cleanupChannel(c) ==
    [c EXCEPT !.state = "unsubscribed", !.log = @ \o <<"unsubscribe", "removeChannel">>,
              !.events = <<>>, !.teardowns = @ + 1]

\* the cleanup the effect returned: none when it returned early
Cleanup(c) == IF c = NoChannel THEN c ELSE cleanupChannel(c)

Request(n, k, i) == [run |-> n, kind |-> k, id |-> i, pc |-> "sent", failed |-> FALSE,
                     data |-> None]

\* the store sends a change of project p to the channels subscribed to it
Publish(e, p) ==
    channels' = [n \in DOMAIN channels |->
                    IF channels[n].state = "subscribed" /\ channels[n].project = p
                    THEN [channels[n] EXCEPT !.events = Append(@, e)]
                    ELSE channels[n]]

hookRest == <<fetch, ops, feed, refetches, budget, last>>

\* The argument of the hook changes: cleanup of the last run, then the effect.
ChangeProject(q) ==
    /\ mounted /\ run < MaxRuns
    /\ q \in (ProjectIds \cup {Null}) \ {projectId}
    /\ projectId' = q
    /\ run' = run + 1
    /\ channels' = [channels EXCEPT ![run] = Cleanup(@),
                                    ![run + 1] = IF q = Null THEN NoChannel
                                                 ELSE OpenChannel(q)]
    /\ pending' = pending \cup (IF q = Null THEN {} ELSE {Request(run + 1, "fetch", Null)})
    /\ loading' = (q # Null)
    /\ UNCHANGED <<issues, error, crashed, db, nextId, mounted, changes>>
    /\ UNCHANGED <<storeVars, boardVars, hookRest, sideVars>>

\* The component unmounts: cleanup of the last run.
Unmount ==
    /\ mounted
    /\ mounted' = FALSE
    /\ channels' = [channels EXCEPT ![run] = Cleanup(@)]
    /\ UNCHANGED <<issues, loading, error, crashed, db, nextId, projectId, run, pending,
                   changes>>
    /\ UNCHANGED <<storeVars, boardVars, hookRest, sideVars>>

\* The store acknowledges the subscription.
SubscribeAck(n) ==
    /\ channels[n].state = "subscribing"
    /\ channels' = [channels EXCEPT ![n].state = "subscribed"]
    /\ UNCHANGED <<issues, loading, error, crashed, db, nextId, projectId, mounted, run,
                   pending, changes>>
    /\ UNCHANGED <<storeVars, boardVars, hookRest, sideVars>>

\* Other clients change the issues of a project.
OtherInsert(p) ==
    /\ changes > 0 /\ nextId < Len(NewIds)
    /\ db' = db \cup {ProjectRow(NewIds[nextId + 1], p, <<2>>)}
    /\ Publish(Event("INSERT", NewIds[nextId + 1]), p)
    /\ nextId' = nextId + 1
    /\ changes' = changes - 1
    /\ UNCHANGED <<issues, loading, error, crashed, projectId, mounted, run, pending>>
    /\ UNCHANGED <<storeVars, boardVars, hookRest, sideVars>>

OtherUpdate(i) ==
    /\ changes > 0 /\ Rows(i) # {}
    /\ db' = {IF r.id = i THEN Spread(r, [title |-> "remote"]) ELSE r : r \in db}
    /\ Publish(Event("UPDATE", i), (CHOOSE r \in Rows(i) : TRUE).project_id)
    /\ changes' = changes - 1
    /\ UNCHANGED <<issues, loading, error, crashed, nextId, projectId, mounted, run,
                   pending>>
    /\ UNCHANGED <<storeVars, boardVars, hookRest, sideVars>>

OtherDelete(i) ==
    /\ changes > 0 /\ Rows(i) # {}
    /\ db' = db \ Rows(i)
    /\ Publish(Event("DELETE", i), (CHOOSE r \in Rows(i) : TRUE).project_id)
    /\ changes' = changes - 1
    /\ UNCHANGED <<issues, loading, error, crashed, nextId, projectId, mounted, run,
                   pending>>
    /\ UNCHANGED <<storeVars, boardVars, hookRest, sideVars>>

\* Channel n hands its oldest event to the handler registered for it: the
\* DELETE handler runs to its end, the INSERT / UPDATE handler sends its
\* re-fetch.
ChannelDeliver(n) ==
    /\ channels[n].state = "subscribed" /\ channels[n].events # <<>>
    /\ LET e == Head(channels[n].events)
       IN  /\ Request(n, e.type, e.id) \notin pending
           /\ IF e.type = "DELETE"
              THEN /\ Update(LAMBDA prev : deleteHandler(prev, e.id))
                   /\ UNCHANGED pending
              ELSE /\ pending' = pending \cup {Request(n, e.type, e.id)}
                   /\ UNCHANGED <<issues, crashed>>
    /\ channels' = [channels EXCEPT ![n].events = Tail(@)]
    /\ UNCHANGED <<loading, error, db, nextId, projectId, mounted, run, changes>>
    /\ UNCHANGED <<storeVars, boardVars, hookRest, sideVars>>

\* getIssuesByProjectId(projectId) at the store, for the project of the run
ListServer(req) ==
    /\ req \in pending /\ req.kind = "fetch" /\ req.pc = "sent"
    /\ \E arr \in Arrangements(RowsOf(channels[req.run].project)) :
          pending' = (pending \ {req}) \cup
                        {[req EXCEPT !.pc = "resp", !.data = Some(arr)]}
    /\ UNCHANGED <<issues, loading, error, crashed, db, nextId, projectId, mounted, run,
                   channels, changes>>
    /\ UNCHANGED <<storeVars, boardVars, hookRest, sideVars>>

\* select(...).eq("id", id).single() at the store
SingleServer(req) ==
    /\ req \in pending /\ req.kind # "fetch" /\ req.pc = "sent"
    /\ pending' = (pending \ {req}) \cup
            {[req EXCEPT !.pc = "resp",
                         !.data = IF Rows(req.id) = {} THEN None
                                  ELSE Some(CHOOSE x \in Rows(req.id) : TRUE)]}
    /\ UNCHANGED <<issues, loading, error, crashed, db, nextId, projectId, mounted, run,
                   channels, changes>>
    /\ UNCHANGED <<storeVars, boardVars, hookRest, sideVars>>

\* a request comes back with { data: null, error }
RequestFails(req) ==
    /\ req \in pending /\ req.pc = "sent"
    /\ pending' = (pending \ {req}) \cup {[req EXCEPT !.pc = "resp", !.failed = TRUE]}
    /\ UNCHANGED <<issues, loading, error, crashed, db, nextId, projectId, mounted, run,
                   channels, changes>>
    /\ UNCHANGED <<storeVars, boardVars, hookRest, sideVars>>

\* fetchIssues after its await
FetchIssuesResume(req) ==
    /\ req \in pending /\ req.kind = "fetch" /\ req.pc = "resp"
    /\ pending' = pending \ {req}
    /\ IF ~mounted
       THEN UNCHANGED <<issues, loading, error, crashed, channels>>
       ELSE /\ IF req.failed
               THEN error' = Some("error") /\ UNCHANGED <<issues, crashed, channels>>
               ELSE /\ Assign(req.data) /\ error' = error
                    /\ channels' = [channels EXCEPT ![req.run].fetched = TRUE]
            /\ loading' = FALSE
    /\ UNCHANGED <<db, nextId, projectId, mounted, run, changes>>
    /\ UNCHANGED <<storeVars, boardVars, hookRest, sideVars>>

\* the INSERT / UPDATE handler after its await
HandlerResume(req) ==
    /\ req \in pending /\ req.kind # "fetch" /\ req.pc = "resp"
    /\ pending' = pending \ {req}
    /\ IF ~mounted \/ IsNull(req.data)
       THEN UNCHANGED <<issues, crashed>>
       ELSE Update(LAMBDA prev : refetchResult(req.kind, prev, req.id, Val(req.data)))
    /\ UNCHANGED <<loading, error, db, nextId, projectId, mounted, run, channels, changes>>
    /\ UNCHANGED <<storeVars, boardVars, hookRest, sideVars>>

(***************************************************************************)
(* POST /api/teams.                                                         *)
(*                                                                         *)
(* A value of the request body is its JavaScript type and, for a string,   *)
(* its characters.  The body is a JSON object, JSON null, or no JSON.       *)
(***************************************************************************)
MinNameLength == 2
MaxNameLength == 50
MaxDescriptionLength == 500

Undefined == [type |-> "undefined", chars |-> <<>>]
Number == [type |-> "number", chars |-> <<>>]          \* a number other than 0
Str(s) == [type |-> "string", chars |-> s]
Xs(n) == [k \in 1..n |-> "x"]
\* !v
Falsy(v) == v.type = "undefined" \/ (v.type = "string" /\ Len(v.chars) = 0)

RECURSIVE trimStart(_)
trimStart(s) == IF Len(s) > 0 /\ s[1] = " " THEN trimStart(Tail(s)) ELSE s
RECURSIVE trimEnd(_)
trimEnd(s) == IF Len(s) > 0 /\ s[Len(s)] = " " THEN trimEnd(SubSeq(s, 1, Len(s) - 1)) ELSE s
\* String.prototype.trim
trim(s) == trimEnd(trimStart(s))

Body(j, n, d) == [json |-> j, name |-> n, description |-> d]
Names == {Undefined, Number, Str(<<>>), Str(Xs(MinNameLength - 1)), Str(<<" ", "x">>),
          Str(Xs(MinNameLength)), Str(Xs(MaxNameLength)), Str(Xs(MaxNameLength + 1))}
Descriptions == {Undefined, Number, Str(Xs(1)), Str(Xs(MaxDescriptionLength)),
                 Str(Xs(MaxDescriptionLength + 1))}
Bodies == {Body("none", Undefined, Undefined), Body("null", Undefined, Undefined)}
          \cup {Body("object", n, d) : n \in Names, d \in Descriptions}
Users == {Null, "u1"}

\* The handler: the status it answers with and the tables it leaves.  "await
\* request.json()" throws on a body that is no JSON, the destructuring throws on
\* null, "description?.trim()" throws on a number: the catch answers 500.
POST(req, createFails, memberFails, deleteFails) ==
    LET Same(st) == [status |-> st, teams |-> teams, team_members |-> team_members]
        name == req.body.name
        description == req.body.description
        team == [id |-> Cardinality(teams) + 1, name |-> trim(name.chars),
                 description |-> IF Falsy(description) \/ Len(trim(description.chars)) = 0
                                 THEN Null ELSE trim(description.chars),
                 owner_id |-> req.user]
    IN  IF req.user = Null THEN Same(401)
        ELSE IF req.body.json # "object" THEN Same(500)
        ELSE IF Falsy(name) \/ name.type # "string" THEN Same(400)
        ELSE IF Len(name.chars) < MinNameLength \/ Len(name.chars) > MaxNameLength
             THEN Same(400)
        ELSE IF /\ ~Falsy(description) /\ description.type = "string"
                /\ Len(description.chars) > MaxDescriptionLength
             THEN Same(400)
        ELSE IF ~Falsy(description) /\ description.type # "string" THEN Same(500)
        ELSE IF createFails THEN Same(500)
        ELSE IF memberFails
             THEN [status |-> 500,
                   teams |-> IF deleteFails THEN teams \cup {team} ELSE teams,
                   team_members |-> team_members]
        ELSE [status |-> 201, teams |-> teams \cup {team},
              team_members |-> team_members \cup
                    {[team_id |-> team.id, user_id |-> req.user, role |-> "owner"]}]

Post(u, b, createFails, memberFails, deleteFails) ==
    /\ posts > 0
    /\ posts' = posts - 1
    /\ request' = [user |-> u, body |-> b]
    /\ LET r == POST([user |-> u, body |-> b], createFails, memberFails, deleteFails)
       IN  response' = r.status /\ teams' = r.teams /\ team_members' = r.team_members
    /\ UNCHANGED <<storeVars, boardVars, hookVars, switchVars, notifVars, projVars, chanVars>>

(***************************************************************************)
(* useNotifications(userId) and table "notifications".                      *)
(*                                                                         *)
(* A call is two steps: the store executes its request and emits the        *)
(* change-feed events, later the continuation runs in the hook.  An event   *)
(* carries the new row and, of the old row, the "read" column only when the *)
(* table's replica identity is FULL (otherwise payload.old.read is          *)
(* undefined).                                                              *)
(***************************************************************************)
NotifIds == {"m1", "m2", "m3"}
Notification(i, r, c) == [id |-> i, read |-> r, created_at |-> c]
NotifTable == {Notification("m1", FALSE, 1), Notification("m2", FALSE, 2),
               Notification("m3", TRUE, 3)}
NotifRow(i) == CHOOSE r \in notifRows : r.id = i
Max0(n) == IF n < 0 THEN 0 ELSE n                       \* Math.max(0, n)
\* notifications.filter((n) => !n.read).length
unreadOf(list) == Cardinality({k \in 1..Len(list) : ~list[k].read})

RECURSIVE Newest(_)
\* order("created_at", { ascending: false })
Newest(rows) ==
    IF rows = {} THEN <<>>
    ELSE LET r == CHOOSE x \in rows : \A y \in rows : y.created_at <= x.created_at
         IN  <<r>> \o Newest(rows \ {r})

\* payload of an event: payload.new (None for DELETE), payload.old.id,
\* payload.old.read
Payload(t, new, old) ==
    [type |-> t, id |-> old.id, new |-> new,
     oldRead |-> IF ~replicaFull THEN "undefined"
                 ELSE IF old.read THEN "true" ELSE "false"]
RECURSIVE Payloads(_, _)
Payloads(t, rows) ==
    IF rows = {} THEN <<>>
    ELSE LET r == CHOOSE x \in rows : TRUE
         IN  <<Payload(t, IF t = "DELETE" THEN None ELSE Some([r EXCEPT !.read = TRUE]), r)>>
             \o Payloads(t, rows \ {r})

NotifCall(op, i) == [op |-> op, id |-> i, pc |-> "sent", failed |-> FALSE,
                     closure |-> notifications, data |-> None]

\* the rows a mutation request matches at the store
Matched(c) ==
    IF c.op \in {"markAsRead", "deleteNotification"} THEN {r \in notifRows : r.id = c.id}
    ELSE IF c.op = "markAllAsRead" THEN {r \in notifRows : ~r.read}
    ELSE {r \in notifRows : r.read}

\* a mutation function of the hook is called
CallNotif(op, i) ==
    /\ notifActs > 0
    /\ notifActs' = notifActs - 1
    /\ NotifCall(op, i) \notin notifCalls
    /\ notifCalls' = notifCalls \cup {NotifCall(op, i)}
    /\ UNCHANGED <<notifications, unreadCount, notifRows, notifEvents, replicaFull>>
    /\ UNCHANGED <<storeVars, boardVars, hookVars, switchVars, teamVars, projVars, chanVars>>

markAsRead(i) == CallNotif("markAsRead", i)
markAllAsRead == CallNotif("markAllAsRead", Null)
deleteNotification(i) == CallNotif("deleteNotification", i)
deleteAllRead == CallNotif("deleteAllRead", Null)

\* the server inserts a notification for the user
NotifInsert ==
    /\ notifActs > 0 /\ \A r \in notifRows : r.id # "m4"
    /\ notifActs' = notifActs - 1
    /\ notifRows' = notifRows \cup {Notification("m4", FALSE, 4)}
    /\ notifEvents' = Append(notifEvents,
            [type |-> "INSERT", id |-> "m4", new |-> Some(Notification("m4", FALSE, 4)),
             oldRead |-> "undefined"])
    /\ UNCHANGED <<notifications, unreadCount, notifCalls, replicaFull>>
    /\ UNCHANGED <<storeVars, boardVars, hookVars, switchVars, teamVars, projVars, chanVars>>

\* the store executes the request of call c
NotifServer(c) ==
    /\ c \in notifCalls /\ c.pc = "sent"
    /\ LET answer(d) == notifCalls' = (notifCalls \ {c}) \cup
                                        {[c EXCEPT !.pc = "resp", !.data = d]}
       IN  IF c.op = "fetch"
           THEN answer(Some(Newest(notifRows))) /\ UNCHANGED <<notifRows, notifEvents>>
           ELSE IF c.op = "refetch"
           THEN /\ answer(IF Matched([c EXCEPT !.op = "markAsRead"]) = {} THEN None
                          ELSE Some(NotifRow(c.id)))
                /\ UNCHANGED <<notifRows, notifEvents>>
           ELSE IF c.op \in {"markAsRead", "markAllAsRead"}
           THEN /\ answer(None)
                /\ notifRows' = {IF r \in Matched(c) THEN [r EXCEPT !.read = TRUE] ELSE r :
                                    r \in notifRows}
                /\ notifEvents' = notifEvents \o Payloads("UPDATE", Matched(c))
           ELSE /\ answer(None)
                /\ notifRows' = notifRows \ Matched(c)
                /\ notifEvents' = notifEvents \o Payloads("DELETE", Matched(c))
    /\ UNCHANGED <<notifications, unreadCount, notifActs, replicaFull>>
    /\ UNCHANGED <<storeVars, boardVars, hookVars, switchVars, teamVars, projVars, chanVars>>

\* the request of call c comes back with an error
NotifServerFails(c) ==
    /\ c \in notifCalls /\ c.pc = "sent"
    /\ notifCalls' = (notifCalls \ {c}) \cup {[c EXCEPT !.pc = "resp", !.failed = TRUE]}
    /\ UNCHANGED <<notifications, unreadCount, notifRows, notifEvents, notifActs,
                   replicaFull>>
    /\ UNCHANGED <<storeVars, boardVars, hookVars, switchVars, teamVars, projVars, chanVars>>

\* what the continuation of call c sets: fetchNotifications after its await,
\* the INSERT handler after its re-fetch, the mutations after "if (error) throw"
continuation(c) ==
    LET Set(list, count) == [notifications |-> list, unreadCount |-> count]
        has(i) == \E k \in 1..Len(c.closure) : c.closure[k].id = i /\ ~c.closure[k].read
    IN  IF c.failed \/ (c.op = "refetch" /\ IsNull(c.data))
        THEN Set(notifications, unreadCount)
        ELSE IF c.op = "fetch" THEN Set(Val(c.data), unreadOf(Val(c.data)))
        ELSE IF c.op = "refetch"
        THEN Set(<<Val(c.data)>> \o notifications, unreadCount + 1)
        ELSE IF c.op = "markAsRead"
        THEN Set([k \in 1..Len(notifications) |->
                    IF notifications[k].id = c.id
                    THEN [notifications[k] EXCEPT !.read = TRUE] ELSE notifications[k]],
                 Max0(unreadCount - 1))
        ELSE IF c.op = "markAllAsRead"
        THEN Set([k \in 1..Len(notifications) |-> [notifications[k] EXCEPT !.read = TRUE]],
                 0)
        ELSE IF c.op = "deleteNotification"
        THEN Set(Filter(notifications, c.id),
                 IF has(c.id) THEN Max0(unreadCount - 1) ELSE unreadCount)
        ELSE Set(SelectSeq(notifications, LAMBDA n : ~n.read), unreadCount)

NotifResume(c) ==
    /\ c \in notifCalls /\ c.pc = "resp"
    /\ notifCalls' = notifCalls \ {c}
    /\ notifications' = continuation(c).notifications
    /\ unreadCount' = continuation(c).unreadCount
    /\ UNCHANGED <<notifRows, notifEvents, notifActs, replicaFull>>
    /\ UNCHANGED <<storeVars, boardVars, hookVars, switchVars, teamVars, projVars, chanVars>>

\* the UPDATE and DELETE handlers
handler(e) ==
    IF e.type = "UPDATE"
    THEN [notifications |->
             [k \in 1..Len(notifications) |->
                 IF notifications[k].id = e.id
                 THEN Spread(notifications[k], Val(e.new)) ELSE notifications[k]],
          unreadCount |->
             IF Val(e.new).read /\ e.oldRead # "true" THEN Max0(unreadCount - 1)
             ELSE IF ~Val(e.new).read /\ e.oldRead = "true" THEN unreadCount + 1
             ELSE unreadCount]
    ELSE [notifications |-> Filter(notifications, e.id),
          unreadCount |-> IF e.oldRead # "true" THEN Max0(unreadCount - 1)
                          ELSE unreadCount]

\* the channel hands its oldest event to the handler registered for it; the
\* INSERT handler sends its re-fetch
NotifDeliver ==
    /\ notifEvents # <<>>
    /\ notifEvents' = Tail(notifEvents)
    /\ LET e == Head(notifEvents)
       IN  IF e.type = "INSERT"
           THEN /\ notifCalls' = notifCalls \cup {[NotifCall("refetch", e.id)
                                                     EXCEPT !.closure = <<>>]}
                /\ UNCHANGED <<notifications, unreadCount>>
           ELSE /\ notifications' = handler(e).notifications
                /\ unreadCount' = handler(e).unreadCount
                /\ UNCHANGED notifCalls
    /\ UNCHANGED <<notifRows, notifActs, replicaFull>>
    /\ UNCHANGED <<storeVars, boardVars, hookVars, switchVars, teamVars, projVars, chanVars>>

(***************************************************************************)
(* useProjects(teamId) and the tables "projects" and "statuses".            *)
(*                                                                         *)
(* A call is a record [n, fn, id, name, pc, failed, data, statuses,         *)
(* result]: the store executes its request ("req" to "resp"), then the      *)
(* code after the await runs.  A call that has returned stays in            *)
(* projectCalls with pc "done" and the way its promise settled.             *)
(***************************************************************************)
Project(i, n) == [id |-> i, name |-> n]
ProjectNames == {"a", "b"}
ProjectFns == {"createProject", "updateProject", "deleteProject"}

\* createDefaultStatuses: the rows it inserts
defaultStatuses(pid) ==
    {[project_id |-> pid, name |-> "To Do", order |-> 0],
     [project_id |-> pid, name |-> "In Progress", order |-> 1],
     [project_id |-> pid, name |-> "Done", order |-> 2]}

\* the id the store gives the next project
NextProjectId == 2 + Cardinality({c \in projectCalls : c.fn = "createProject" /\ ~IsNull(c.data)})

Advance(c, d) == projectCalls' = (projectCalls \ {c}) \cup {d}

\* createProject / updateProject / deleteProject up to their first await
CallProject(fn, i, name) ==
    /\ projectActs > 0
    /\ projectActs' = projectActs - 1
    /\ projectCalls' = projectCalls \cup
          {[n |-> projectActs, fn |-> fn, id |-> i, name |-> name, pc |-> "req",
            failed |-> FALSE, data |-> None, statuses |-> "none", result |-> "none"]}
    /\ UNCHANGED <<projects, projectRows, statusRows>>
    /\ UNCHANGED <<storeVars, boardVars, hookVars, switchVars, teamVars, notifVars, chanVars>>

createProject(name) == CallProject("createProject", 0, name)
updateProject(i, name) == CallProject("updateProject", i, name)
deleteProject(i) == CallProject("deleteProject", i, "a")

\* the store executes the request: insert(...).select().single(),
\* update(...).eq("id", projectId).select().single() (no row is an error) or
\* delete().eq("id", projectId)
ProjectServer(c) ==
    /\ c \in projectCalls /\ c.pc = "req"
    /\ LET hit == {r \in projectRows : r.id = c.id}
       IN  IF c.fn = "createProject"
           THEN /\ projectRows' = projectRows \cup {Project(NextProjectId, c.name)}
                /\ Advance(c, [c EXCEPT !.pc = "resp",
                                        !.data = Some(Project(NextProjectId, c.name))])
           ELSE IF c.fn = "updateProject"
           THEN IF hit = {}
                THEN /\ Advance(c, [c EXCEPT !.pc = "resp", !.failed = TRUE])
                     /\ UNCHANGED projectRows
                ELSE /\ projectRows' = (projectRows \ hit) \cup {Project(c.id, c.name)}
                     /\ Advance(c, [c EXCEPT !.pc = "resp",
                                             !.data = Some(Project(c.id, c.name))])
           ELSE /\ projectRows' = projectRows \ hit
                /\ Advance(c, [c EXCEPT !.pc = "resp"])
    /\ UNCHANGED <<projects, statusRows, projectActs>>
    /\ UNCHANGED <<storeVars, boardVars, hookVars, switchVars, teamVars, notifVars, chanVars>>

\* the store answers the request with an error
ProjectServerFails(c) ==
    /\ c \in projectCalls /\ c.pc = "req"
    /\ Advance(c, [c EXCEPT !.pc = "resp", !.failed = TRUE])
    /\ UNCHANGED <<projects, projectRows, statusRows, projectActs>>
    /\ UNCHANGED <<storeVars, boardVars, hookVars, switchVars, teamVars, notifVars, chanVars>>

\* mutation functions that set the list before they look at the error
ProjectResumeApplies(c) ==
    /\ c \in projectCalls /\ c.pc = "resp"
    /\ IF c.fn = "createProject" /\ ~c.failed
       THEN /\ Advance(c, [c EXCEPT !.pc = "statuses"])
            /\ UNCHANGED projects
       ELSE /\ Advance(c, [c EXCEPT !.pc = "done",
                                    !.result = IF c.failed THEN "rejected" ELSE "resolved"])
            /\ projects' = IF c.fn = "updateProject" /\ ~c.failed
                           THEN [k \in 1..Len(projects) |->
                                   IF projects[k].id = c.id THEN Val(c.data)
                                   ELSE projects[k]]
                           ELSE Filter(projects, c.id)
    /\ UNCHANGED <<projectRows, statusRows, projectActs>>
    /\ UNCHANGED <<storeVars, boardVars, hookVars, switchVars, teamVars, notifVars, chanVars>>

\* "if (error) throw error", then createProject awaits createDefaultStatuses,
\* updateProject and deleteProject set the list and return
ProjectResume(c) ==
    /\ c \in projectCalls /\ c.pc = "resp"
    /\ IF c.failed
       THEN /\ Advance(c, [c EXCEPT !.pc = "done", !.result = "rejected"])
            /\ UNCHANGED projects
       ELSE IF c.fn = "createProject"
       THEN /\ Advance(c, [c EXCEPT !.pc = "statuses"])
            /\ UNCHANGED projects
       ELSE /\ Advance(c, [c EXCEPT !.pc = "done", !.result = "resolved"])
            /\ projects' = IF c.fn = "updateProject"
                           THEN [k \in 1..Len(projects) |->
                                   IF projects[k].id = c.id THEN Val(c.data)
                                   ELSE projects[k]]
                           ELSE Filter(projects, c.id)
    /\ UNCHANGED <<projectRows, statusRows, projectActs>>
    /\ UNCHANGED <<storeVars, boardVars, hookVars, switchVars, teamVars, notifVars, chanVars>>

\* createDefaultStatuses at the store: the three rows are inserted, or the
\* insert fails and the function returns { data: null, error }
StatusesServer(c, fails) ==
    /\ c \in projectCalls /\ c.pc = "statuses"
    /\ statusRows' = IF fails THEN statusRows
                     ELSE statusRows \cup defaultStatuses(Val(c.data).id)
    /\ Advance(c, [c EXCEPT !.pc = "statusesr",
                            !.statuses = IF fails THEN "error" ELSE "created"])
    /\ UNCHANGED <<projects, projectRows, projectActs>>
    /\ UNCHANGED <<storeVars, boardVars, hookVars, switchVars, teamVars, notifVars, chanVars>>

\* createProject after "await createDefaultStatuses(data.id)":
\* setProjects((prev) => [data, ...prev]); return data
CreateProjectResume(c) ==
    /\ c \in projectCalls /\ c.pc = "statusesr"
    /\ projects' = <<Val(c.data)>> \o projects
    /\ Advance(c, [c EXCEPT !.pc = "done", !.result = "resolved"])
    /\ UNCHANGED <<projectRows, statusRows, projectActs>>
    /\ UNCHANGED <<storeVars, boardVars, hookVars, switchVars, teamVars, notifVars, chanVars>>

(***************************************************************************)
(* The realtime channels of useIssues, useNotifications and                 *)
(* useRealtimeTeamActivities on the Supabase client.                        *)
(*                                                                         *)
(* A channel is the record of the switch model: its state and the log of    *)
(* the calls made on it and on the client for it.  An effect run opens the  *)
(* hook's channels; its cleanup runs on a dependency change or on unmount.  *)
(***************************************************************************)
\* the channels useRealtimeTeamActivities opens, by option
ActivityTopics == {"team_members", "projects", "teams"}

\* the topics an effect run of hook h opens
TopicsOf(h, options) == IF h = "useRealtimeTeamActivities" THEN options ELSE {h}

RECURSIVE OpenAll(_, _)
\* createRealtimeChannel / supabase.channel and subscribe() for each topic (the
\* handlers registered in between are not recorded)
OpenAll(h, topics) ==
    IF topics = {} THEN <<>>
    ELSE LET t == CHOOSE x \in topics : TRUE
         IN  <<[hook |-> h, ch |-> [OpenChannel(t) EXCEPT !.log = <<"channel", "subscribe">>]]>>
             \o OpenAll(h, topics \ {t})

\* the cleanup of useNotifications: channel.unsubscribe()
unsubscribe(c) ==
    [c EXCEPT !.state = "unsubscribed", !.log = @ \o <<"unsubscribe">>,
              !.events = <<>>, !.teardowns = @ + 1]

\* the cleanup function the effect of hook h returned, applied to one channel
cleanupOf(h, c) == IF h = "useNotifications" THEN unsubscribe(c) ELSE cleanupChannel(c)

\* the effect of hook h runs (mount, or a dependency changed and the cleanup of
\* the previous run is done)
RunEffect(h, options) ==
    /\ effectsLeft > 0 /\ ~effects[h].live
    /\ effectsLeft' = effectsLeft - 1
    /\ opened' = opened \o OpenAll(h, TopicsOf(h, options))
    /\ effects' = [effects EXCEPT ![h] = [live |-> TRUE,
                                          chans |-> (Len(opened) + 1)..Len(opened')]]
    /\ UNCHANGED <<storeVars, boardVars, hookVars, switchVars, teamVars, notifVars,
                   projVars>>

\* the cleanup of the live effect run of hook h
CleanupEffect(h) ==
    /\ effects[h].live
    /\ opened' = [k \in 1..Len(opened) |->
                     IF k \in effects[h].chans
                     THEN [opened[k] EXCEPT !.ch = cleanupOf(h, @)] ELSE opened[k]]
    /\ effects' = [effects EXCEPT ![h] = NoEffect]
    /\ UNCHANGED effectsLeft
    /\ UNCHANGED <<storeVars, boardVars, hookVars, switchVars, teamVars, notifVars,
                   projVars>>

(***************************************************************************)
(* Specifications                                                           *)
(***************************************************************************)
\* The collection store: helper calls on a duplicate-free collection.
InitStore ==
    /\ items \in StoreStarts
    /\ expectedIds = IdsOf(items)
    /\ calls = 0
    /\ heap = [objects |-> items, arrays |-> <<[k \in 1..Len(items) |-> k]>>]
    /\ cur = 1 /\ given = 1 /\ lastCall = NoStoreCall
    /\ BoardIdle /\ HookIdle /\ SwitchIdle /\ TeamsIdle /\ NotifIdle /\ ProjectsIdle
    /\ ChannelsIdle

NextStore ==
    \/ \E i \in StoreIds : StoreAdd(i)
    \/ \E i \in StoreIds, p \in StorePatches : StoreUpdate(i, p)
    \/ \E i \in StoreIds : StoreDelete(i)

SpecStore == InitStore /\ [][NextStore]_vars

\* The board, mounted on a table of issues.
InitMounted ==
    /\ table \in BoardTables
    /\ table0 = table
    /\ board \in Arrangements(table)
    /\ activeId = Null /\ overId = Null /\ moveReqs = <<>>
    /\ lastDrop = NoDrop
    /\ StoreIdle /\ HookIdle /\ SwitchIdle /\ TeamsIdle /\ NotifIdle /\ ProjectsIdle /\ ChannelsIdle

InitBoard == InitMounted /\ dragsLeft = MaxDrags

\* the same with one more drag to come
InitBoardMore == InitMounted /\ dragsLeft = MaxDrags + 1

NextBoard ==
    \/ \E i \in BoardIds : DragStart(i)
    \/ \E o \in ColumnIds \cup BoardIds \cup {Null} : DragOver(o)
    \/ DragEnd
    \/ StoreMove
    \/ StoreMoveFails

SpecBoard == InitBoard /\ [][NextBoard]_vars

SpecBoardMore == InitBoardMore /\ [][NextBoard]_vars

\* The hook, mounted on a project: its effect has sent the initial fetch and
\* subscribed the channel.
HookTables == {{Row("a", "todo", <<1>>, "t", TRUE)}}

InitHook ==
    /\ db \in HookTables
    /\ issues = Some(<<>>) /\ loading = TRUE /\ error = None /\ crashed = FALSE
    /\ nextId = 0
    /\ fetch = [pc |-> "sent", failed |-> FALSE, data |-> None]
    /\ ops = [s \in OpSlots |-> FreeOp]
    /\ feed = <<>> /\ refetches = {} /\ last = NoStep
    /\ StoreIdle /\ BoardIdle /\ SwitchIdle /\ TeamsIdle /\ NotifIdle /\ ProjectsIdle /\ ChannelsIdle

Init == InitHook /\ budget = MaxActs

\* the same with one more call or change to come
InitMore == InitHook /\ budget = MaxActs + 1

HookIds == {"a"} \cup TempIds \cup {NewIds[k] : k \in 1..Len(NewIds)}

Next ==
    \/ \E arr \in Arrangements(db) : FetchServer(arr)
    \/ FetchServerFails
    \/ FetchResume
    \/ \E s \in OpSlots, st \in CreateStatuses : CallCreate(s, st)
    \/ \E s \in OpSlots : ServerMaxOrder(s)
    \/ \E s \in OpSlots : ServerMaxOrderFails(s)
    \/ \E s \in OpSlots, t \in TempIds : CreateContinue(s, t)
    \/ \E s \in OpSlots : ServerInsert(s)
    \/ \E s \in OpSlots : ServerFails(s)
    \/ \E s \in OpSlots : CreateResume(s)
    \/ \E s \in OpSlots, i \in HookIds : CallUpdate(s, i)
    \/ \E s \in OpSlots : ServerUpdate(s)
    \/ \E s \in OpSlots : UpdateResume(s)
    \/ \E s \in OpSlots, i \in HookIds : CallDelete(s, i)
    \/ \E s \in OpSlots : ServerDelete(s)
    \/ \E s \in OpSlots : DeleteResume(s)
    \/ \E s \in OpSlots, i \in HookIds, st \in Statuses, o \in MoveOrders :
            CallMove(s, i, st, o)
    \/ \E s \in OpSlots : ServerMove(s)
    \/ \E s \in OpSlots : MoveResume(s)
    \/ \E s \in OpSlots, arr \in Arrangements(db) : ServerList(s, arr)
    \/ \E s \in OpSlots : ServerListFails(s)
    \/ \E s \in OpSlots : MoveListResume(s)
    \/ Deliver
    \/ \E r \in refetches : RefetchServer(r)
    \/ \E r \in refetches : RefetchServerFails(r)
    \/ \E r \in refetches : RefetchResume(r)
    \/ \E st \in CreateStatuses : RemoteInsert(st)
    \/ \E i \in HookIds : RemoteUpdate(i)
    \/ \E i \in HookIds : RemoteDelete(i)

Spec == Init /\ [][Next]_vars

SpecMore == InitMore /\ [][Next]_vars

\* The hook mounted with projectId "P": the effect has run once.
InitSwitch ==
    /\ db = ProjectTable
    /\ issues = Some(<<>>) /\ loading = TRUE /\ error = None /\ crashed = FALSE
    /\ nextId = 0
    /\ projectId = "P" /\ mounted = TRUE /\ run = 1
    /\ channels = [n \in 1..MaxRuns |-> IF n = 1 THEN OpenChannel("P") ELSE NoChannel]
    /\ pending = {Request(1, "fetch", Null)}
    /\ changes = MaxChanges
    /\ fetch = [pc |-> "done", failed |-> FALSE, data |-> None]
    /\ ops = [s \in OpSlots |-> FreeOp] /\ feed = <<>> /\ refetches = {}
    /\ budget = 0 /\ last = NoStep
    /\ StoreIdle /\ BoardIdle /\ TeamsIdle /\ NotifIdle /\ ProjectsIdle /\ ChannelsIdle

SwitchIds == {"p1", "q1", "n1"}

NextSwitch ==
    \/ \E q \in ProjectIds \cup {Null} : ChangeProject(q)
    \/ Unmount
    \/ \E n \in 1..MaxRuns : SubscribeAck(n)
    \/ \E p \in ProjectIds : OtherInsert(p)
    \/ \E i \in SwitchIds : OtherUpdate(i)
    \/ \E i \in SwitchIds : OtherDelete(i)
    \/ \E n \in 1..MaxRuns : ChannelDeliver(n)
    \/ \E req \in pending : ListServer(req)
    \/ \E req \in pending : SingleServer(req)
    \/ \E req \in pending : RequestFails(req)
    \/ \E req \in pending : FetchIssuesResume(req)
    \/ \E req \in pending : HandlerResume(req)

SpecSwitch == InitSwitch /\ [][NextSwitch]_vars


\* The route, with empty tables.
InitTeams ==
    /\ teams = {} /\ team_members = {} /\ request = NoRequest /\ response = 0
    /\ posts = MaxPosts
    /\ StoreIdle /\ BoardIdle /\ HookIdle /\ SwitchIdle /\ NotifIdle /\ ProjectsIdle /\ ChannelsIdle

NextTeams ==
    \E u \in Users, b \in Bodies, cf \in BOOLEAN, mf \in BOOLEAN, df \in BOOLEAN :
        Post(u, b, cf, mf, df)

SpecTeams == InitTeams /\ [][NextTeams]_vars

\* The hook mounted for a user: the effect has sent the fetch and subscribed.
InitNotif ==
    /\ notifRows = NotifTable /\ replicaFull \in BOOLEAN
    /\ notifications = <<>> /\ unreadCount = 0
    /\ notifEvents = <<>> /\ notifActs = MaxNotifActs
    /\ notifCalls = {[NotifCall("fetch", Null) EXCEPT !.closure = <<>>]}
    /\ StoreIdle /\ BoardIdle /\ HookIdle /\ SwitchIdle /\ TeamsIdle /\ ProjectsIdle /\ ChannelsIdle

NextNotif ==
    \/ \E i \in NotifIds : markAsRead(i)
    \/ markAllAsRead
    \/ \E i \in NotifIds : deleteNotification(i)
    \/ deleteAllRead
    \/ NotifInsert
    \/ \E c \in notifCalls : NotifServer(c)
    \/ \E c \in notifCalls : NotifServerFails(c)
    \/ \E c \in notifCalls : NotifResume(c)
    \/ NotifDeliver

SpecNotif == InitNotif /\ [][NextNotif]_vars

\* useProjects mounted on a team with one project, its fetch done.
InitProjects ==
    /\ projectRows = {Project(1, "a")} /\ projects = <<Project(1, "a")>>
    /\ statusRows = defaultStatuses(1)
    /\ projectCalls = {} /\ projectActs = MaxProjectActs
    /\ StoreIdle /\ BoardIdle /\ HookIdle /\ SwitchIdle /\ TeamsIdle /\ NotifIdle
    /\ ChannelsIdle

NextProjects ==
    \/ \E name \in ProjectNames : createProject(name)
    \/ \E i \in 1..2, name \in ProjectNames : updateProject(i, name)
    \/ \E i \in 1..2 : deleteProject(i)
    \/ \E c \in projectCalls : ProjectServer(c)
    \/ \E c \in projectCalls : ProjectServerFails(c)
    \/ \E c \in projectCalls : ProjectResume(c)
    \/ \E c \in projectCalls, fails \in BOOLEAN : StatusesServer(c, fails)
    \/ \E c \in projectCalls : CreateProjectResume(c)

SpecProjects == InitProjects /\ [][NextProjects]_vars

\* No hook mounted yet.
InitChannels ==
    /\ opened = <<>> /\ effects = [h \in ChannelHooks |-> NoEffect]
    /\ effectsLeft = MaxEffects
    /\ StoreIdle /\ BoardIdle /\ HookIdle /\ SwitchIdle /\ TeamsIdle /\ NotifIdle
    /\ ProjectsIdle

NextChannels ==
    \/ \E h \in ChannelHooks, options \in SUBSET ActivityTopics : RunEffect(h, options)
    \/ \E h \in ChannelHooks : CleanupEffect(h)

SpecChannels == InitChannels /\ [][NextChannels]_vars

(***************************************************************************)
(* Properties                                                               *)
(***************************************************************************)
IdsIn(o) == IF IsNull(o) THEN {} ELSE IdsOf(Val(o))
Holds(o, row) == ~IsNull(o) /\ \E k \in 1..Len(Val(o)) : Val(o)[k] = row
Optimistic == {"create", "update", "delete"}
\* the step in which call s handles the response of its authoritative request
Settles(s) == ops[s].kind \in Optimistic /\ ops[s].pc = "resp" /\ ops'[s].pc = "done"

\* C1: when the authoritative request of createIssue, updateIssue or deleteIssue
\* fails, the collection after the rollback equals the collection as it was
\* immediately before that call's optimistic transform was applied.
RollbackRestoresPreTransform ==
    [][\A s \in OpSlots : Settles(s) /\ ops[s].failed => issues' = ops[s].before]_vars

\* C2: once the confirmation of a successful createIssue has been applied, the
\* collection has no entry with the temporary id and has an entry equal to the
\* record the store returned, whatever was applied since the optimistic add.
CreateConfirmedReplacesTemp ==
    [][\A s \in OpSlots :
          Settles(s) /\ ops[s].kind = "create" /\ ~ops[s].failed
          => /\ ops[s].id \notin IdsIn(issues')
             /\ Holds(issues', Val(ops[s].data))]_vars

\* C3: after any sequence of optimisticAdd / optimisticUpdate / optimisticDelete
\* calls on a duplicate-free collection, the collection holds exactly the ids
\* added and not later removed, each once.
StoreExactIdsNoDuplicates == IdsOf(items) = expectedIds /\ NoDup(items)

\* C4: when the re-fetch of an INSERT or UPDATE event for id X returned a
\* record, the collection afterwards has exactly one entry with id X, and it is
\* that record.
RefetchedRecordMergedById ==
    [][\A r \in refetches :
          r.pc = "resp" /\ ~IsNull(r.data) /\ r \notin refetches'
          => /\ ~IsNull(issues')
             /\ Count(Val(issues'), r.id) = 1
             /\ Holds(issues', Val(r.data))]_vars

\* C5: the order a drop on the column of another lane sends to the store, no
\* earlier move pending, is strictly greater than the order of every issue the
\* store has in that lane at call time.
ColumnDropOrderAboveLane ==
    lastDrop.kind = "column" /\ lastDrop.from # lastDrop.status /\ lastDrop.pending = 0
    => \A r \in lastDrop.lane : parseInt(lastDrop.order) > parseInt(r.order)

\* C6: the order a drop on another issue sends to the store equals the order of
\* the issue dropped on, for a reorder inside a lane and for a move into
\* another lane.
IssueDropOrderIsTargetOrder ==
    lastDrop.kind \in {"reorder", "lane"} => lastDrop.order = lastDrop.target

\* C7: with the single issue "1" (order "1", lane "todo"), dragging it over and
\* dropping it on the empty lane "done", followed by moveIssue, yields lane
\* "done" and order "1".
ScenarioTable == {Row("1", "todo", <<1>>, "t", TRUE)}
ScenarioMoved == /\ table0 = ScenarioTable
                 /\ dragsLeft = MaxDrags - 1 /\ activeId = Null /\ moveReqs = <<>>
                 /\ lastDrop.kind = "column" /\ lastDrop.status = "done"
                 /\ table # table0
ScenarioMoveYieldsOrderOne ==
    ScenarioMoved => table = {Row("1", "done", <<1>>, "t", TRUE)}

\* the step in which the DELETE handler runs for the oldest event
DeleteDelivered == feed # <<>> /\ Head(feed).type = "DELETE" /\ Len(feed') < Len(feed)

\* C8: processing a DELETE event for id X leaves the collection without an
\* entry of id X; when X was not in the collection it is unchanged and no
\* error is raised.
DeleteEventRemoves ==
    [][DeleteDelivered
       => /\ ~crashed'
          /\ Head(feed).id \notin IdsIn(issues')
          /\ (Head(feed).id \notin IdsIn(issues) => issues' = issues)]_vars

\* The same for the states in which the collection is an array.
DeleteEventRemovesFromArray ==
    [][DeleteDelivered /\ ~IsNull(issues)
       => /\ ~crashed'
          /\ Head(feed).id \notin IdsIn(issues')
          /\ (Head(feed).id \notin IdsIn(issues) => issues' = issues)]_vars

\* C9: when the re-fetch of an INSERT or UPDATE event returned no record, the
\* notification is dropped: the collection and the error state are unchanged,
\* nothing is thrown, and no request is issued.
RefetchNoRecordDropped ==
    [][\A r \in refetches :
          r.pc = "resp" /\ IsNull(r.data) /\ r \notin refetches'
          => /\ issues' = issues /\ error' = error /\ crashed' = crashed
             /\ refetches' = refetches \ {r}
             /\ ops' = ops /\ fetch' = fetch /\ feed' = feed]_vars
RefetchNoRecordDroppedSeen == last.kind = "dropped"

\* C10: when the authoritative request of createIssue, updateIssue or
\* deleteIssue fails, the call has taken the steps snapshot, optimistic
\* transform, request, then restores the snapshot and rejects; a call whose
\* request failed never resolves.
FailureRestoresThenRejects ==
    [][\A s \in OpSlots :
          /\ Settles(s) /\ ops[s].failed
             => /\ ops[s].steps = <<"snapshot", "transform", "request">>
                /\ ops'[s].steps = <<"snapshot", "transform", "request", "restore", "throw">>
                /\ issues' = ops[s].snapshot
                /\ ops'[s].result = "rejected"
          /\ ops'[s].kind \in Optimistic /\ ops'[s].failed /\ ops'[s].pc = "done"
             => ops'[s].result = "rejected"]_vars
FailureRestoresThenRejectsSeen ==
    \E s \in OpSlots : /\ ops[s].kind \in Optimistic /\ ops[s].pc = "done"
                       /\ ops[s].failed /\ ops[s].result = "rejected"

\* C11: overlapping moveIssue calls are not serialized: the step that handles
\* the refetch response of a moveIssue call replaces the collection by that
\* response, whatever other calls are in flight or have finished since.
MoveResponseReplacesCollection ==
    [][\A s \in OpSlots :
          ops[s].kind = "move" /\ ops[s].pc = "listr" /\ ops'[s].pc = "done"
          => issues' = ops[s].data]_vars
\* Two moveIssue calls have resolved, no event or request is outstanding, and
\* the collection is not a listing of the store.
StaleAfterOverlappingMoves ==
    /\ \E s, q \in OpSlots : /\ s # q
                             /\ ops[s].kind = "move" /\ ops[s].result = "resolved"
                             /\ ops[q].kind = "move" /\ ops[q].result = "resolved"
    /\ feed = <<>> /\ refetches = {} /\ fetch.pc = "done"
    /\ ~IsNull(issues) /\ Val(issues) \notin Arrangements(db)

\* the channel of run n is set up as the effect does it: the three handlers
\* are registered before subscribe is called
HandlersBeforeSubscribe(n) ==
    channels[n] # NoChannel
    => \E k \in 1..Len(channels[n].log) :
          /\ channels[n].log[k] = "subscribe"
          /\ \A h \in {"on INSERT", "on UPDATE", "on DELETE"} :
                \E j \in 1..(k - 1) : channels[n].log[j] = h
\* the channel of run n is torn down once when its run is over, and not before
TornDownOnce(n) ==
    channels[n] # NoChannel
    => channels[n].teardowns = (IF n < run \/ ~mounted THEN 1 ELSE 0)
\* a handler of a channel that was torn down does not change the collection
QuietAfterTeardown ==
    \A req \in pending :
        /\ req.kind # "fetch" /\ req \notin pending'
        /\ channels[req.run].state = "unsubscribed"
        => issues' = issues

\* C12: every subscription of useIssues registers its three handlers before
\* it subscribes, is torn down exactly once when projectId changes or the hook
\* unmounts, and after the teardown no change-feed event of it modifies the
\* collection, a re-fetch in flight at teardown included.
SubscriptionLifecycle ==
    /\ [](\A n \in 1..MaxRuns : HandlersBeforeSubscribe(n) /\ TornDownOnce(n))
    /\ [][QuietAfterTeardown]_vars
\* The parts of it about the set-up and the teardown of the channel.
SubscriptionSetUpAndTornDown ==
    \A n \in 1..MaxRuns : HandlersBeforeSubscribe(n) /\ TornDownOnce(n)

\* C13: a call of optimisticAdd, optimisticUpdate or optimisticDelete returns
\* a new array and leaves every array and object that existed before the call
\* as it was, so the array the caller passed still holds the prior collection.
HelpersLeaveInputUnchanged ==
    [][calls' # calls
       => /\ cur' # cur
          /\ \A k \in 1..Len(heap.objects) : heap'.objects[k] = heap.objects[k]
          /\ \A k \in 1..Len(heap.arrays) : heap'.arrays[k] = heap.arrays[k]
          /\ Deref(heap', cur) = items
          /\ Deref(heap', cur') = items']_vars
\* A call has returned a collection that differs from the one it was given.
HelperChangedCollection ==
    calls > 0 /\ Deref(heap, cur) # Deref(heap, given)

\* C14: optimisticUpdate and optimisticDelete called with an id that no
\* element has return a collection equal to their input.
MissingIdIsNoOp ==
    lastCall.op \in {"update", "delete"} /\ lastCall.id \notin IdsOf(Deref(heap, given))
    => items = Deref(heap, given)
MissingIdUpdateSeen ==
    /\ lastCall.op = "update" /\ lastCall.id \notin IdsOf(Deref(heap, given))
    /\ Len(items) > 0
MissingIdDeleteSeen ==
    /\ lastCall.op = "delete" /\ lastCall.id \notin IdsOf(Deref(heap, given))
    /\ Len(items) > 0

\* the name is missing, no string, or shorter than 2 or longer than 50, or the
\* description is a string longer than 500
InvalidInput(b) ==
    \/ b.json # "object"
    \/ b.name.type # "string"
    \/ Len(b.name.chars) < MinNameLength \/ Len(b.name.chars) > MaxNameLength
    \/ b.description.type = "string" /\ Len(b.description.chars) > MaxDescriptionLength
Answers(st) == response' = st /\ teams' = teams /\ team_members' = team_members

\* C15: POST /api/teams answers 401 to a request without a user and 400 to a
\* request of a user with invalid input, and inserts no row for either.
TeamsInputValidated ==
    [][posts' # posts
       => /\ request'.user = Null => Answers(401)
          /\ request'.user # Null /\ InvalidInput(request'.body) => Answers(400)]_vars
\* The same for the requests whose body is a JSON object.
TeamsObjectInputValidated ==
    [][posts' # posts /\ request'.body.json = "object"
       => /\ request'.user = Null => Answers(401)
          /\ request'.user # Null /\ InvalidInput(request'.body) => Answers(400)]_vars

\* the entries of the collection with id i
EntriesOf(o, i) == IF IsNull(o) THEN {}
                   ELSE {Val(o)[k] : k \in {j \in 1..Len(Val(o)) : Val(o)[j].id = i}}

\* C16: when a failed createIssue, updateIssue or deleteIssue rolls back right
\* after a change-feed handler was applied (the call's request was already
\* answered, so the handler came after the call's snapshot), the effect of the
\* handler is still in the collection: the entry an INSERT or UPDATE handler
\* wrote is present, the id a DELETE handler removed is absent.
RollbackKeepsEventEffect ==
    [][\A s \in OpSlots :
          Settles(s) /\ ops[s].failed /\ last.kind \in {"INSERT", "UPDATE", "DELETE"}
          => IF last.kind = "DELETE" THEN last.id \notin IdsIn(issues')
             ELSE \A e \in EntriesOf(issues, last.id) : Holds(issues', e)]_vars

\* C17: once the calls and the events of useNotifications have been handled,
\* unreadCount is the number of notifications in the list whose read flag is
\* false, and it is never negative.
UnreadCountMatchesList ==
    /\ unreadCount >= 0
    /\ notifCalls = {} /\ notifEvents = <<>> => unreadCount = unreadOf(notifications)

\* C18: the issues collection of useIssues is an array in every reachable
\* state; no operation, a moveIssue whose refetch fails included, sets it to
\* null.
IssuesAlwaysArray == ~IsNull(issues)

\* C19: after projectId has changed from one project to another and every
\* outstanding request has completed (the new project's fetch with success),
\* the issues collection holds only issues of the new project.
OnlyIssuesOfCurrentProject ==
    /\ mounted /\ run > 1 /\ projectId \in ProjectIds
    /\ channels[run - 1].project \in ProjectIds
    /\ pending = {} /\ channels[run].fetched
    => \A k \in 1..Len(Val(issues)) : Val(issues)[k].project_id = projectId

\* C20: after the first drag reordered an issue inside its lane (to the index of
\* the issue dropped on), the move has been stored and the list is refetched
\* sorted by order, the lane of the refetched list is the lane the board shows:
\* the moved issue at the index dropped on, the others in their former
\* relative order.
ReorderStored ==
    /\ lastDrop.kind = "reorder" /\ lastDrop.from = lastDrop.status
    /\ dragsLeft = MaxDrags - 1
    /\ activeId = Null /\ moveReqs = <<>>
    /\ table = moveIssue(table0, lastDrop.id, lastDrop.status, lastDrop.order)
LaneIds(list, s) == [k \in 1..Len(InStatus(list, s)) |-> InStatus(list, s)[k].id]
ReorderSurvivesRefetch ==
    ReorderStored
    => \A arr \in Arrangements(table) :
          LaneIds(arr, lastDrop.status) = LaneIds(board, lastDrop.status)

\* C21: when the backend call of a non-optimistic mutation (updateProject,
\* deleteProject) returns an error, the call rejects with that error and the
\* hook's list is left unchanged.
ReturnsFailed(c) ==
    /\ c.fn \in {"updateProject", "deleteProject"} /\ c.pc = "resp" /\ c.failed
    /\ c \notin projectCalls'
MoveErrorThrownListKept ==
    [][\A s \in OpSlots :
          ops[s].kind = "move" /\ ops[s].pc = "resp" /\ ops[s].failed /\ ops'[s].pc = "done"
          => issues' = issues /\ ops'[s].result = "rejected"]_vars

\* C22: after a POST /api/teams has ended, a team and its owner membership
\* exist together or not at all: every team row has the owner row of its
\* creator and every membership row has its team.
TeamAndOwnerTogether ==
    /\ \A t \in teams : [team_id |-> t.id, user_id |-> t.owner_id, role |-> "owner"]
                            \in team_members
    /\ \A m \in team_members : \E t \in teams : t.id = m.team_id

\* C23: the order createIssue inserts a new issue with is numerically strictly
\* greater than the order of every issue the store has in that status at the
\* time of the insert.
CreateStored(s) ==
    ops[s].kind = "create" /\ ops[s].pc = "req" /\ ops'[s].pc = "resp" /\ ~ops'[s].failed
CreatedOrderAboveStatus ==
    [][\A s \in OpSlots :
          CreateStored(s)
          => \A r \in db : r.status_id = ops[s].status
                            => parseInt(ops[s].order) > parseInt(r.order)]_vars

\* C24: every project createProject has returned and prepended to the list has
\* its three default statuses (To Do 0, In Progress 1, Done 2) in the store;
\* createProject does not resolve when they could not be created.
CreatedProjectsHaveStatuses ==
    \A c \in projectCalls :
        c.fn = "createProject" /\ c.pc = "done" /\ c.result = "resolved"
        => /\ defaultStatuses(Val(c.data).id) \subseteq statusRows
           /\ c.statuses = "created"

\* C25: every channel a hook opened is torn down by the cleanup of the effect
\* run that opened it: once that run is cleaned up the channel has been
\* unsubscribed and removed from the client.
InLog(c, call) == \E k \in 1..Len(c.log) : c.log[k] = call
CleanedUp(k) == \A h \in ChannelHooks : k \notin effects[h].chans
TornDown(c) == c.state = "unsubscribed" /\ InLog(c, "unsubscribe") /\ InLog(c, "removeChannel")
ChannelsTornDownOnCleanup ==
    \A k \in 1..Len(opened) : CleanedUp(k) => TornDown(opened[k].ch)
\* The same for the hooks other than useNotifications.
CleanupChannelTearsDown ==
    \A k \in 1..Len(opened) :
        CleanedUp(k) /\ opened[k].hook # "useNotifications" => TornDown(opened[k].ch)
====
